---- MODULE Spec2Model ----
(***************************************************************************)
(* Billing reconciliation of Inflow: the Stripe webhook receiver and its   *)
(* event handlers, as a state machine over the relational store.           *)
(*                                                                         *)
(* The webhook whose upsert is keyed by the remote subscription id is      *)
(* src/unnamed/part_002; the one keyed by the remote customer id is        *)
(* src/supabase/functions/stripe-webhook/index.ts.  The tables are those   *)
(* of src/supabase/migrations/20251019192352_wooden_grove.sql.             *)
(*                                                                         *)
(* A nullable timestamp is a set: {} is null and {t} is the timestamp t.   *)
(* A nullable string uses the string "null".                               *)
(***************************************************************************)
EXTENDS Integers, Sequences, FiniteSets, TLC

VARIABLES
    variant,    \* which webhook is deployed: "sub" (upsert keyed by subscription
                \* id) or "cus" (upsert keyed by customer id)
    env,        \* the four configuration variables read at module load
    now,        \* the clock read by new Date()
    customers,  \* table stripe_customers
    subs,       \* table stripe_subscriptions
    orders,     \* table stripe_orders
    remote,     \* the provider's side: per customer, its latest subscription
    tasks,      \* two handleEvent runs in flight at once: event, position
    commits,    \* the runs among the two that committed a write, in commit order
    cur,        \* the webhook invocation under way: request, response, handler
    scn,        \* how far the trial scenario has run for ScnSub
    provCustomers, \* the customers that exist at the provider
    sessions,   \* the checkout sessions created at the provider
    reqs        \* the checkout requests under way: input, position, response

vars == <<variant, env, now, customers, subs, orders, remote, cur, scn, tasks, commits,
          provCustomers, sessions, reqs>>

\* ------------------------------------------------------------------ bounds

\* Row ids (gen_random_uuid) are drawn from 1..MaxRows.
MaxRows == 3

\* The provider delivers one event at most MaxAttempts times in a row.
MaxAttempts == 2

\* ------------------------------------------------------------------ values

Null == {}

Some(x) == {x}

NullStr == "null"

\* subscription_status of the migration
SubscriptionStatus ==
    {"incomplete", "incomplete_expired", "trialing", "active", "past_due",
     "canceled", "unpaid"}

\* What the provider may send as subscription.status: the statuses of the
\* enum and one the enum does not have.
ProviderStatus == SubscriptionStatus \cup {"paused"}

SubIds == {"sub_1", "sub_2"}

\* cus_1 has a mapping row, cus_2 has none.
CustomerIds == {"cus_1", "cus_2"}

\* Epoch seconds as the provider sends them: absent, 0 and a real instant.
EpochSecs == {Null, Some(0), Some(5)}

\* x ? new Date(x * 1000).toISOString() : null
ToIso(secs) ==
    IF secs = Null \/ secs = Some(0) THEN Null ELSE {s * 1000 : s \in secs}

\* What a call can do: succeed, return {error}, or reject ("throw").  The store
\* client resolves with {data, error} and does not reject.
StoreOutcomes == {"ok", "error"}

\* Console output is kept as a sequence of tags, one per message.
Say(log, tag) == Append(log, tag)

\* ------------------------------------------------------------------ store

\* The one mapping the webhook specifications start with.
Mapping1 == [id |-> 1, user_id |-> "user_1", customer_id |-> "cus_1", deleted_at |-> Null]

\* gen_random_uuid(): an id no row of the table has.
FreeIds(rows) == (1..MaxRows) \ {r.id : r \in rows}

NewId(rows) == CHOOSE i \in FreeIds(rows) : \A j \in FreeIds(rows) : i <= j

\* As SelectCustomerSingle, but without the filter on customer_id when it
\* matches no row: the first row of the table is returned.
SelectCustomerFirst(table, c, o) ==
    LET m == {r \in table : r.customer_id = c}
        any == IF m # {} THEN m ELSE table
    IN  IF o = "ok" /\ Cardinality(any) = 1
        THEN [error |-> FALSE, data |-> any]
        ELSE [error |-> TRUE, data |-> {}]

\* from('stripe_customers').select('id, user_id').eq('customer_id', c).single():
\* an error unless exactly one row matches.
SelectCustomerSingle(table, c, o) ==
    LET m == {r \in table : r.customer_id = c}
    IN  IF o = "ok" /\ Cardinality(m) = 1
        THEN [error |-> FALSE, data |-> m]
        ELSE [error |-> TRUE, data |-> {}]

\* As SubRowAccepted, but status is a text column that takes any value.
SubRowAcceptedAnyStatus(custTable, data) ==
    data.customer_id \in {c.id : c \in custTable}

\* The checks the table stripe_subscriptions makes on a written row: status is
\* of the enum, customer_id references a row of stripe_customers.
SubRowAccepted(custTable, data) ==
    /\ data.status \in SubscriptionStatus
    /\ data.customer_id \in {c.id : c \in custTable}

\* As MergeSub, but the row in conflict is kept as it is: ON CONFLICT DO NOTHING.
MergeSubKeepOld(old, data) == old

\* Columns an upsert writes over the row it conflicts with: all it was given.
\* id and created_at are not among them.
MergeSub(old, data) == [data EXCEPT !.id = old.id]

\* As UpsertSubBySubscriptionId, but the conflict on subscription_id is not
\* resolved: every call adds a row.
UpsertSubInsertOnly(table, custTable, data, o) ==
    IF o # "ok" \/ ~SubRowAccepted(custTable, data) \/ FreeIds(table) = {}
    THEN [error |-> TRUE, rows |-> table]
    ELSE [error |-> FALSE, rows |-> table \cup {[data EXCEPT !.id = NewId(table)]}]

\* from('stripe_subscriptions').upsert(data, {onConflict: 'subscription_id'}):
\* INSERT ... ON CONFLICT (subscription_id) DO UPDATE.
UpsertSubBySubscriptionId(table, custTable, data, o) ==
    LET hit == {r \in table : r.subscription_id = data.subscription_id}
    IN  IF o # "ok" \/ ~SubRowAccepted(custTable, data)
        THEN [error |-> TRUE, rows |-> table]
        ELSE IF hit # {}
        THEN [error |-> FALSE,
              rows |-> (table \ hit) \cup {MergeSub(r, data) : r \in hit}]
        ELSE IF FreeIds(table) = {}
        THEN [error |-> TRUE, rows |-> table]
        ELSE [error |-> FALSE,
              rows |-> table \cup {[data EXCEPT !.id = NewId(table)]}]

\* from('stripe_subscriptions').update(patch).eq(...): the rows that match the
\* filters (hit) are patched (patched[r]); matching none is no error.
UpdateSubWhere(table, hit, patched, o) ==
    IF o # "ok"
    THEN [error |-> TRUE, rows |-> table]
    ELSE [error |-> FALSE,
          rows |-> {IF r \in hit THEN patched[r] ELSE r : r \in table}]

\* The rows of a subscription id.
RowsBySub(table, sid) == {r \in table : r.subscription_id = sid}

\* ------------------------------------------------------------------ events

\* A Stripe.Subscription object.
SubscriptionObject(s, c, st, te, ca) ==
    [id |-> s, customer |-> c, status |-> st, price_id |-> "price_std",
     current_period_start |-> Some(1), current_period_end |-> Some(9),
     cancel_at_period_end |-> FALSE, canceled_at |-> ca,
     trial_start |-> Some(1), trial_end |-> te, metadata |-> "{}"]

\* The subscription objects events carry.  For sub_1 of the mapped customer:
\* every status, a trial end (absent, 0 or set) while trialing and a
\* cancellation time once canceled.  For sub_2: active, of the mapped and of
\* the unmapped customer.
SubscriptionObjects ==
    {SubscriptionObject("sub_1", "cus_1", "trialing", te, Null) : te \in EpochSecs}
    \cup {SubscriptionObject("sub_1", "cus_1", "canceled", Null, Some(7))}
    \cup {SubscriptionObject("sub_1", "cus_1", st, Null, Null) :
            st \in ProviderStatus \ {"trialing", "canceled"}}
    \cup {SubscriptionObject("sub_2", c, "active", Null, Null) : c \in CustomerIds}

\* Stripe.Invoice objects: subscription is an id, null, or an expanded object.
InvoiceObjects ==
    {[id |-> "in_1", customer |-> "cus_1", subscription |-> s] :
        s \in SubIds \cup {NullStr, "object"}}

\* A Stripe.Checkout.Session object.
SessionObject(c, m, ps) ==
    [id |-> IF ps = "paid" THEN "cs_1" ELSE "cs_2",
     customer |-> c, mode |-> m, payment_status |-> ps,
     subscription |-> IF m = "subscription" THEN "sub_1" ELSE NullStr,
     payment_intent |-> "pi_1", amount_total |-> 1999, currency |-> NullStr]

\* The sessions events carry: a payment of the mapped customer, paid or not, a
\* subscription checkout, a paid payment of the unmapped customer and one
\* without customer.
SessionObjects ==
    {SessionObject("cus_1", "payment", "paid"),
     SessionObject("cus_1", "payment", "unpaid"),
     SessionObject("cus_1", "subscription", "paid"),
     SessionObject("cus_2", "payment", "paid"),
     SessionObject(NullStr, "payment", "paid")}

SubscriptionEventTypes ==
    {"customer.subscription.created", "customer.subscription.updated",
     "customer.subscription.deleted"}

InvoiceEventTypes == {"invoice.payment_succeeded", "invoice.payment_failed"}

Event(t, ob) == [type |-> t, object |-> ob]

\* Stripe.Event: a type tag and data.object.  handleSubscriptionDeleted reads
\* the id of its object only: one object per subscription id.
Events ==
    {Event(t, ob) : t \in {"customer.subscription.created", "customer.subscription.updated"},
                    ob \in SubscriptionObjects}
    \cup {Event("customer.subscription.deleted",
                SubscriptionObject(s, "cus_1", "canceled", Null, Some(7))) : s \in SubIds}
    \cup {Event(t, ob) : t \in InvoiceEventTypes, ob \in InvoiceObjects}
    \cup {Event("checkout.session.completed", ob) : ob \in SessionObjects}
    \cup {Event("customer.updated", [id |-> "cus_1", customer |-> NullStr])}

\* --------------------------------------------- handlers, subscription-id keyed

\* What a handler leaves behind: the tables, the console, and whether an
\* exception leaves it (exc).
Result(s, o, log, exc) == [subs |-> s, orders |-> o, log |-> log, exc |-> exc]

\* As SubscriptionData, but trial_end is taken from trial_start.
SubscriptionDataTrialStart(customerRecord, subscription, t) ==
    [id |-> 0,
     customer_id |-> customerRecord.id,
     subscription_id |-> subscription.id,
     price_id |-> subscription.price_id,
     status |-> subscription.status,
     current_period_start |-> ToIso(subscription.current_period_start),
     current_period_end |-> ToIso(subscription.current_period_end),
     cancel_at_period_end |-> subscription.cancel_at_period_end,
     canceled_at |-> ToIso(subscription.canceled_at),
     trial_start |-> ToIso(subscription.trial_start),
     trial_end |-> ToIso(subscription.trial_start),
     metadata |-> subscription.metadata,
     updated_at |-> Some(t)]

\* subscriptionData of upsertSubscription
SubscriptionData(customerRecord, subscription, t) ==
    [id |-> 0,
     customer_id |-> customerRecord.id,
     subscription_id |-> subscription.id,
     price_id |-> subscription.price_id,
     status |-> subscription.status,
     current_period_start |-> ToIso(subscription.current_period_start),
     current_period_end |-> ToIso(subscription.current_period_end),
     cancel_at_period_end |-> subscription.cancel_at_period_end,
     canceled_at |-> ToIso(subscription.canceled_at),
     trial_start |-> ToIso(subscription.trial_start),
     trial_end |-> ToIso(subscription.trial_end),
     metadata |-> subscription.metadata,
     updated_at |-> Some(t)]

\* upsertSubscription: o1 is the outcome of the customer lookup, o2 of the upsert.
\* Its catch logs and throws again.
UpsertSubscription(custTable, table, ords, log, subscription, t, o1, o2) ==
    LET found == SelectCustomerSingle(custTable, subscription.customer, o1)
        rec == CHOOSE r \in found.data : TRUE
        up == UpsertSubBySubscriptionId(table, custTable,
                                         SubscriptionData(rec, subscription, t), o2)
    IN  IF o1 = "throw"
        THEN Result(table, ords, Say(log, "Failed to upsert subscription"), TRUE)
        ELSE IF found.error \/ found.data = {}
        THEN Result(table, ords,
                    Say(log, "Failed to find customer record for subscription"), FALSE)
        ELSE IF o2 = "throw"
        THEN Result(table, ords, Say(log, "Failed to upsert subscription"), TRUE)
        ELSE IF up.error
        THEN Result(table, ords,
                    Say(Say(log, "Error upserting subscription"),
                        "Failed to upsert subscription"), TRUE)
        ELSE Result(up.rows, ords, Say(log, "Successfully synced subscription"), FALSE)

\* The try/catch of a handler: an exception of its body is logged and ends there.
Caught(res, tag) ==
    IF res.exc THEN Result(res.subs, res.orders, Say(res.log, tag), FALSE) ELSE res

HandleSubscriptionCreated(custTable, table, ords, log, subscription, t, o1, o2) ==
    Caught(UpsertSubscription(custTable, table, ords, Say(log, "Subscription created"),
                              subscription, t, o1, o2),
           "Error handling subscription created")

HandleSubscriptionUpdated(custTable, table, ords, log, subscription, t, o1, o2) ==
    Caught(UpsertSubscription(custTable, table, ords, Say(log, "Subscription updated"),
                              subscription, t, o1, o2),
           "Error handling subscription updated")

\* As SubscriptionDeletedBody, but the row is removed: .delete() for .update().
SubscriptionDeletedBodyRemove(table, ords, log, subscription, t, o1) ==
    IF o1 = "throw"
    THEN Result(table, ords, log, TRUE)
    ELSE IF o1 # "ok"
    THEN Result(table, ords, Say(log, "Error marking subscription as deleted"), FALSE)
    ELSE Result({r \in table : r.subscription_id # subscription.id}, ords,
                Say(log, "Marked subscription as canceled"), FALSE)

\* The body of handleSubscriptionDeleted
SubscriptionDeletedBody(table, ords, log, subscription, t, o1) ==
    LET up == UpdateSubWhere(table,
                  {r \in table : r.subscription_id = subscription.id},
                  [r \in table |-> [r EXCEPT !.status = "canceled",
                                             !.canceled_at = Some(t),
                                             !.updated_at = Some(t)]],
                  o1)
    IN  IF o1 = "throw"
        THEN Result(table, ords, log, TRUE)
        ELSE IF up.error
        THEN Result(table, ords, Say(log, "Error marking subscription as deleted"), FALSE)
        ELSE Result(up.rows, ords, Say(log, "Marked subscription as canceled"), FALSE)

HandleSubscriptionDeleted(table, ords, log, subscription, t, o1) ==
    Caught(SubscriptionDeletedBody(table, ords, Say(log, "Subscription deleted"),
                                   subscription, t, o1),
           "Error handling subscription deleted")

\* invoice.subscription && typeof invoice.subscription === 'string'
IsSubscriptionIdString(invoice) == invoice.subscription \in SubIds

\* As InvoicePaymentSucceededBody, without .eq('status', 'past_due').
InvoicePaymentSucceededBodyNoFilter(table, ords, log, invoice, t, o1) ==
    LET up == UpdateSubWhere(table,
                  {r \in table : r.subscription_id = invoice.subscription},
                  [r \in table |-> [r EXCEPT !.status = "active", !.updated_at = Some(t)]],
                  o1)
    IN  IF ~IsSubscriptionIdString(invoice)
        THEN Result(table, ords, log, FALSE)
        ELSE IF o1 = "throw"
        THEN Result(table, ords, log, TRUE)
        ELSE IF up.error
        THEN Result(table, ords,
                    Say(log, "Error updating subscription after successful payment"), FALSE)
        ELSE Result(up.rows, ords, log, FALSE)

\* The body of handleInvoicePaymentSucceeded
InvoicePaymentSucceededBody(table, ords, log, invoice, t, o1) ==
    LET up == UpdateSubWhere(table,
                  {r \in table : r.subscription_id = invoice.subscription /\ r.status = "past_due"},
                  [r \in table |-> [r EXCEPT !.status = "active", !.updated_at = Some(t)]],
                  o1)
    IN  IF ~IsSubscriptionIdString(invoice)
        THEN Result(table, ords, log, FALSE)
        ELSE IF o1 = "throw"
        THEN Result(table, ords, log, TRUE)
        ELSE IF up.error
        THEN Result(table, ords,
                    Say(log, "Error updating subscription after successful payment"), FALSE)
        ELSE Result(up.rows, ords, log, FALSE)

HandleInvoicePaymentSucceeded(table, ords, log, invoice, t, o1) ==
    Caught(InvoicePaymentSucceededBody(table, ords, Say(log, "Invoice payment succeeded"),
                                       invoice, t, o1),
           "Error handling invoice payment succeeded")

\* As InvoicePaymentFailedBody, with .eq('status', 'active') added.
InvoicePaymentFailedBodyActiveOnly(table, ords, log, invoice, t, o1) ==
    LET up == UpdateSubWhere(table,
                  {r \in table : r.subscription_id = invoice.subscription /\ r.status = "active"},
                  [r \in table |-> [r EXCEPT !.status = "past_due", !.updated_at = Some(t)]],
                  o1)
    IN  IF ~IsSubscriptionIdString(invoice)
        THEN Result(table, ords, log, FALSE)
        ELSE IF o1 = "throw"
        THEN Result(table, ords, log, TRUE)
        ELSE IF up.error
        THEN Result(table, ords,
                    Say(log, "Error updating subscription after failed payment"), FALSE)
        ELSE Result(up.rows, ords, log, FALSE)

\* As InvoicePaymentFailedBody, but an upsert: a subscription id without row
\* gets a row of status past_due.
InvoicePaymentFailedBodyUpsert(table, ords, log, invoice, t, o1) ==
    LET hit == {r \in table : r.subscription_id = invoice.subscription}
        row == [id |-> NewId(table), customer_id |-> 1,
                subscription_id |-> invoice.subscription, price_id |-> NullStr,
                status |-> "past_due",
                current_period_start |-> Null, current_period_end |-> Null,
                cancel_at_period_end |-> FALSE, canceled_at |-> Null,
                trial_start |-> Null, trial_end |-> Null, metadata |-> "{}",
                updated_at |-> Some(t)]
    IN  IF ~IsSubscriptionIdString(invoice)
        THEN Result(table, ords, log, FALSE)
        ELSE IF o1 = "throw"
        THEN Result(table, ords, log, TRUE)
        ELSE IF o1 # "ok"
        THEN Result(table, ords,
                    Say(log, "Error updating subscription after failed payment"), FALSE)
        ELSE IF hit = {} /\ FreeIds(table) # {}
        THEN Result(table \cup {row}, ords, log, FALSE)
        ELSE Result({IF r \in hit
                     THEN [r EXCEPT !.status = "past_due", !.updated_at = Some(t)]
                     ELSE r : r \in table}, ords, log, FALSE)

\* The body of handleInvoicePaymentFailed
InvoicePaymentFailedBody(table, ords, log, invoice, t, o1) ==
    LET up == UpdateSubWhere(table,
                  {r \in table : r.subscription_id = invoice.subscription},
                  [r \in table |-> [r EXCEPT !.status = "past_due", !.updated_at = Some(t)]],
                  o1)
    IN  IF ~IsSubscriptionIdString(invoice)
        THEN Result(table, ords, log, FALSE)
        ELSE IF o1 = "throw"
        THEN Result(table, ords, log, TRUE)
        ELSE IF up.error
        THEN Result(table, ords,
                    Say(log, "Error updating subscription after failed payment"), FALSE)
        ELSE Result(up.rows, ords, log, FALSE)

HandleInvoicePaymentFailed(table, ords, log, invoice, t, o1) ==
    Caught(InvoicePaymentFailedBody(table, ords, Say(log, "Invoice payment failed"),
                                    invoice, t, o1),
           "Error handling invoice payment failed")

\* As InsertOrder, without the unique constraints of stripe_orders.
InsertOrderNoUnique(table, custTable, row, o) ==
    IF \/ o # "ok"
       \/ row.customer_id \notin {c.id : c \in custTable}
       \/ FreeIds(table) = {}
    THEN [error |-> TRUE, rows |-> table]
    ELSE [error |-> FALSE, rows |-> table \cup {[row EXCEPT !.id = NewId(table)]}]

\* from('stripe_orders').insert(row): checkout_session_id and payment_intent_id
\* are UNIQUE, customer_id references stripe_customers.
InsertOrder(table, custTable, row, o) ==
    LET clash == {r \in table :
                    \/ r.checkout_session_id = row.checkout_session_id
                    \/ /\ row.payment_intent_id # NullStr
                       /\ r.payment_intent_id = row.payment_intent_id}
    IN  IF \/ o # "ok"
           \/ clash # {}
           \/ row.customer_id \notin {c.id : c \in custTable}
           \/ FreeIds(table) = {}
        THEN [error |-> TRUE, rows |-> table]
        ELSE [error |-> FALSE, rows |-> table \cup {[row EXCEPT !.id = NewId(table)]}]

\* As OrderData, but the row is written with the column's default status.
OrderDataPending(customerRecord, session, t) ==
    [id |-> 0,
     customer_id |-> customerRecord.id,
     checkout_session_id |-> session.id,
     payment_intent_id |-> session.payment_intent,
     amount |-> session.amount_total,
     currency |-> IF session.currency = NullStr THEN "eur" ELSE session.currency,
     status |-> "pending",
     purchased_at |-> Some(t)]

\* The row handleCheckoutCompleted inserts.
OrderData(customerRecord, session, t) ==
    [id |-> 0,
     customer_id |-> customerRecord.id,
     checkout_session_id |-> session.id,
     payment_intent_id |-> session.payment_intent,
     amount |-> session.amount_total,
     currency |-> IF session.currency = NullStr THEN "eur" ELSE session.currency,
     status |-> "paid",
     purchased_at |-> Some(t)]

\* As CheckoutCompletedBody, without the test of the mode: an order is
\* inserted for every paid session.
CheckoutCompletedBodyAnyMode(custTable, table, ords, log, session, t, o1, o2) ==
    LET found == SelectCustomerSingle(custTable, session.customer, o1)
        rec == CHOOSE r \in found.data : TRUE
        ins == InsertOrder(ords, custTable, OrderData(rec, session, t), o2)
        log1 == Say(log, "Checkout completed")
    IN  IF session.customer = NullStr \/ found.error \/ found.data = {}
        THEN Result(table, ords, Say(log, "Failed to find customer record"), FALSE)
        ELSE IF session.payment_status = "paid" /\ ~ins.error
        THEN Result(table, ins.rows, Say(log1, "Created order record"), FALSE)
        ELSE Result(table, ords, log1, FALSE)

\* As CheckoutCompletedBody, without the test of payment_status.
CheckoutCompletedBodyAnyStatus(custTable, table, ords, log, session, t, o1, o2) ==
    LET found == SelectCustomerSingle(custTable, session.customer, o1)
        rec == CHOOSE r \in found.data : TRUE
        ins == InsertOrder(ords, custTable, OrderData(rec, session, t), o2)
        log1 == Say(log, "Checkout completed")
    IN  IF session.customer = NullStr \/ found.error \/ found.data = {}
        THEN Result(table, ords, Say(log, "Failed to find customer record"), FALSE)
        ELSE IF session.mode = "payment" /\ ~ins.error
        THEN Result(table, ins.rows, Say(log1, "Created order record"), FALSE)
        ELSE Result(table, ords, log1, FALSE)

\* As CheckoutCompletedBody, but a session whose customer has no mapping is
\* booked on a mapping of the table.
CheckoutCompletedBodyAnyMapping(custTable, table, ords, log, session, t, o1, o2) ==
    LET found == SelectCustomerSingle(custTable, session.customer, o1)
        rec == IF found.data # {} THEN CHOOSE r \in found.data : TRUE
               ELSE CHOOSE r \in custTable : TRUE
        ins == InsertOrder(ords, custTable, OrderData(rec, session, t), o2)
        log1 == Say(log, "Checkout completed")
    IN  IF session.customer = NullStr
        THEN Result(table, ords, Say(log, "Invalid customer in checkout session"), FALSE)
        ELSE IF o1 = "throw"
        THEN Result(table, ords, log1, TRUE)
        ELSE IF o1 # "ok" \/ custTable = {}
        THEN Result(table, ords, Say(log1, "Failed to find customer record"), FALSE)
        ELSE IF session.mode = "subscription" /\ session.subscription # NullStr
        THEN Result(table, ords, Say(log1, "Subscription checkout completed"), FALSE)
        ELSE IF session.mode = "payment" /\ session.payment_status = "paid"
        THEN IF o2 = "throw"
             THEN Result(table, ords, log1, TRUE)
             ELSE IF ins.error
             THEN Result(table, ords, Say(log1, "Error creating order record"), FALSE)
             ELSE Result(table, ins.rows, Say(log1, "Created order record"), FALSE)
        ELSE Result(table, ords, log1, FALSE)

\* The body of handleCheckoutCompleted
CheckoutCompletedBody(custTable, table, ords, log, session, t, o1, o2) ==
    LET found == SelectCustomerSingle(custTable, session.customer, o1)
        rec == CHOOSE r \in found.data : TRUE
        ins == InsertOrder(ords, custTable, OrderData(rec, session, t), o2)
        log1 == Say(log, "Checkout completed")
    IN  IF session.customer = NullStr
        THEN Result(table, ords, Say(log, "Invalid customer in checkout session"), FALSE)
        ELSE IF o1 = "throw"
        THEN Result(table, ords, log1, TRUE)
        ELSE IF found.error \/ found.data = {}
        THEN Result(table, ords, Say(log1, "Failed to find customer record"), FALSE)
        ELSE IF session.mode = "subscription" /\ session.subscription # NullStr
        THEN Result(table, ords, Say(log1, "Subscription checkout completed"), FALSE)
        ELSE IF session.mode = "payment" /\ session.payment_status = "paid"
        THEN IF o2 = "throw"
             THEN Result(table, ords, log1, TRUE)
             ELSE IF ins.error
             THEN Result(table, ords, Say(log1, "Error creating order record"), FALSE)
             ELSE Result(table, ins.rows, Say(log1, "Created order record"), FALSE)
        ELSE Result(table, ords, log1, FALSE)

HandleCheckoutCompleted(custTable, table, ords, log, session, t, o1, o2) ==
    Caught(CheckoutCompletedBody(custTable, table, ords, log, session, t, o1, o2),
           "Error handling checkout completion")

\* As DispatchEvent, but the default branch logs nothing.
DispatchEventSilentDefault(custTable, table, ords, log, event, t, o1, o2) ==
    CASE event.type = "checkout.session.completed" ->
            HandleCheckoutCompleted(custTable, table, ords, log, event.object, t, o1, o2)
      [] event.type = "customer.subscription.created" ->
            HandleSubscriptionCreated(custTable, table, ords, log, event.object, t, o1, o2)
      [] event.type = "customer.subscription.updated" ->
            HandleSubscriptionUpdated(custTable, table, ords, log, event.object, t, o1, o2)
      [] event.type = "customer.subscription.deleted" ->
            HandleSubscriptionDeleted(table, ords, log, event.object, t, o1)
      [] event.type = "invoice.payment_succeeded" ->
            HandleInvoicePaymentSucceeded(table, ords, log, event.object, t, o1)
      [] event.type = "invoice.payment_failed" ->
            HandleInvoicePaymentFailed(table, ords, log, event.object, t, o1)
      [] OTHER -> Result(table, ords, log, FALSE)

\* The switch of handleEvent
DispatchEvent(custTable, table, ords, log, event, t, o1, o2) ==
    CASE event.type = "checkout.session.completed" ->
            HandleCheckoutCompleted(custTable, table, ords, log, event.object, t, o1, o2)
      [] event.type = "customer.subscription.created" ->
            HandleSubscriptionCreated(custTable, table, ords, log, event.object, t, o1, o2)
      [] event.type = "customer.subscription.updated" ->
            HandleSubscriptionUpdated(custTable, table, ords, log, event.object, t, o1, o2)
      [] event.type = "customer.subscription.deleted" ->
            HandleSubscriptionDeleted(table, ords, log, event.object, t, o1)
      [] event.type = "invoice.payment_succeeded" ->
            HandleInvoicePaymentSucceeded(table, ords, log, event.object, t, o1)
      [] event.type = "invoice.payment_failed" ->
            HandleInvoicePaymentFailed(table, ords, log, event.object, t, o1)
      [] OTHER -> Result(table, ords, Say(log, "Unhandled event type"), FALSE)

\* handleEvent: the switch inside its try/catch.
HandleEvent(custTable, table, ords, event, t, o1, o2) ==
    Caught(DispatchEvent(custTable, table, ords, <<"Handling event">>, event, t, o1, o2),
           "Error handling event")

\* ------------------------------------------------- handlers, customer-id keyed

\* The provider has no subscription for any customer.
NoRemote == [c \in CustomerIds |-> {}]

\* What stripe.subscriptions.list({customer, limit: 1, status: 'all', expand:
\* ['data.default_payment_method']}) can hold for a customer: nothing, or one
\* subscription, with or without a card as default payment method.
RemoteSubscriptions(c) ==
    {SubscriptionObject("sub_1", c, "active", Null, Null)
        @@ [default_payment_method |-> "card"],
     SubscriptionObject("sub_2", c, "trialing", Some(5), Null)
        @@ [default_payment_method |-> NullStr]}

\* The columns of stripe_subscriptions that carry a unique constraint, which
\* are the columns ON CONFLICT can name.
SubConflictTargets == {"id", "subscription_id"}

\* The row an insert creates from the columns it is given: the other columns
\* take their defaults.
DefaultSubRow(customerId) ==
    [id |-> 0, customer_id |-> customerId, subscription_id |-> NullStr,
     price_id |-> NullStr, status |-> "trialing",
     current_period_start |-> Null, current_period_end |-> Null,
     cancel_at_period_end |-> FALSE, canceled_at |-> Null,
     trial_start |-> Null, trial_end |-> Null, metadata |-> "{}",
     updated_at |-> Null]

\* from('stripe_subscriptions').upsert(data, {onConflict: 'customer_id'}), where
\* patched[r] is row r with the columns of data written over it.  The statement is rejected
\* when the conflict target carries no unique constraint, when customer_id,
\* a uuid column, is given a remote customer id, and when the row to insert
\* has no subscription_id; else the row of the customer is patched, or a row
\* of defaults is inserted and patched.
UpsertSubByCustomerId(table, customerId, patched, o) ==
    LET hit == {r \in table : r.customer_id = customerId}
        row == patched[DefaultSubRow(customerId)]
    IN  IF \/ o # "ok"
           \/ "customer_id" \notin SubConflictTargets
           \/ customerId \in CustomerIds
           \/ row.subscription_id = NullStr
           \/ row.status \notin SubscriptionStatus
        THEN [error |-> TRUE, rows |-> table]
        ELSE IF hit # {}
        THEN [error |-> FALSE, rows |-> (table \ hit) \cup {patched[r] : r \in hit}]
        ELSE IF FreeIds(table) = {}
        THEN [error |-> TRUE, rows |-> table]
        ELSE [error |-> FALSE,
              rows |-> table \cup {[row EXCEPT !.id = NewId(table)]}]

\* The columns of subscriptionData of syncCustomerFromStripe, written over row
\* r; metadata is among them only when the default payment method is a card.
SyncPatch(r, customerId, subscription, t) ==
    [r EXCEPT
       !.customer_id = customerId,
       !.subscription_id = subscription.id,
       !.price_id = subscription.price_id,
       !.current_period_start = ToIso(subscription.current_period_start),
       !.current_period_end = ToIso(subscription.current_period_end),
       !.cancel_at_period_end = subscription.cancel_at_period_end,
       !.canceled_at = ToIso(subscription.canceled_at),
       !.trial_start = ToIso(subscription.trial_start),
       !.trial_end = ToIso(subscription.trial_end),
       !.status = subscription.status,
       !.metadata = IF subscription.default_payment_method = "card"
                    THEN "{card}" ELSE @,
       !.updated_at = Some(t)]

\* syncCustomerFromStripe: fetched is what the provider lists for the customer,
\* o1 the outcome of that call, o2 the outcome of the upsert.  Its catch logs
\* and throws again.
SyncCustomerFromStripe(table, ords, log, customerId, t, fetched, o1, o2) ==
    LET log1 == Say(log, "Syncing customer data")
        subscription == CHOOSE x \in fetched : TRUE
        targets == table \cup {DefaultSubRow(customerId)}
        none == UpsertSubByCustomerId(table, customerId,
                    [r \in targets |-> [r EXCEPT !.customer_id = customerId,
                                                 !.status = "canceled",
                                                 !.updated_at = Some(t)]], o2)
        up == UpsertSubByCustomerId(table, customerId,
                    [r \in targets |-> SyncPatch(r, customerId, subscription, t)], o2)
        failed(l) == Result(table, ords, Say(l, "Failed to sync subscription for customer"),
                            TRUE)
    IN  IF o1 # "ok" THEN failed(log1)
        ELSE IF fetched = {}
        THEN IF o2 = "throw" THEN failed(Say(log1, "No subscriptions found"))
             ELSE IF none.error
             THEN Result(table, ords,
                         Say(Say(log1, "No subscriptions found"),
                             "Error updating subscription status"), FALSE)
             ELSE Result(none.rows, ords, Say(log1, "No subscriptions found"), FALSE)
        ELSE IF o2 = "throw" THEN failed(log1)
        ELSE IF up.error THEN failed(Say(log1, "Error syncing subscription"))
        ELSE Result(up.rows, ords, Say(log1, "Successfully synced subscription"), FALSE)

\* from('stripe_orders').insert(row) of the customer-id keyed webhook, which
\* gives customer_id, a uuid column, the remote customer id: the statement is
\* rejected.
InsertOrderByCustomerId(table, row, o) ==
    IF \/ o # "ok"
       \/ row.customer_id \in CustomerIds
       \/ \E r \in table : r.checkout_session_id = row.checkout_session_id
       \/ FreeIds(table) = {}
    THEN [error |-> TRUE, rows |-> table]
    ELSE [error |-> FALSE, rows |-> table \cup {[row EXCEPT !.id = NewId(table)]}]

\* The body of handleCheckoutCompleted of the customer-id keyed webhook
CheckoutCompletedBodyCus(table, ords, log, session, t, fetched, o1, o2) ==
    LET log1 == Say(log, "Checkout completed")
        ins == InsertOrderByCustomerId(
                   ords, OrderData([id |-> session.customer], session, t), o2)
    IN  IF session.customer = NullStr
        THEN Result(table, ords, Say(log, "Invalid customer in checkout session"), FALSE)
        ELSE IF session.mode = "subscription"
        THEN SyncCustomerFromStripe(table, ords, log1, session.customer, t,
                                    fetched, o1, o2)
        ELSE IF session.mode = "payment" /\ session.payment_status = "paid"
        THEN IF o2 = "throw"
             THEN Result(table, ords, log1, TRUE)
             ELSE IF ins.error
             THEN Result(table, ords, Say(log1, "Error creating order record"), FALSE)
             ELSE Result(table, ins.rows, Say(log1, "Created order record"), FALSE)
        ELSE Result(table, ords, log1, FALSE)

HandleCheckoutCompletedCus(table, ords, log, session, t, fetched, o1, o2) ==
    Caught(CheckoutCompletedBodyCus(table, ords, log, session, t, fetched, o1, o2),
           "Error handling checkout completion")

\* customerId && typeof customerId === 'string': the customer of an object
\* may be null, the empty string, or the expanded customer object.
IsCustomerIdString(customerId) == customerId \notin {NullStr, "", "object"}

\* As HandleEventBodyCus, without the test of the customer id.
HandleEventBodyCusAnyCustomer(table, ords, event, t, fetched, o1, o2) ==
    LET customerId == event.object.customer
        log1 == <<"Processing event">>
    IN  IF "customer" \notin DOMAIN event.object
        THEN Result(table, ords, <<"No customer data in event, skipping">>, FALSE)
        ELSE IF event.type = "checkout.session.completed"
        THEN HandleCheckoutCompletedCus(table, ords, log1, event.object, t,
                                        fetched, o1, o2)
        ELSE IF event.type \in SubscriptionEventTypes \cup InvoiceEventTypes
        THEN SyncCustomerFromStripe(table, ords, log1, customerId, t, fetched, o1, o2)
        ELSE Result(table, ords, Say(log1, "Unhandled event type"), FALSE)

\* The body of the try of handleEvent of the customer-id keyed webhook
HandleEventBodyCus(table, ords, event, t, fetched, o1, o2) ==
    LET customerId == event.object.customer
        log1 == <<"Processing event">>
    IN  IF "customer" \notin DOMAIN event.object
        THEN Result(table, ords, <<"No customer data in event, skipping">>, FALSE)
        ELSE IF ~IsCustomerIdString(customerId)
        THEN Result(table, ords, <<"Invalid customer ID in event">>, FALSE)
        ELSE IF event.type = "checkout.session.completed"
        THEN HandleCheckoutCompletedCus(table, ords, log1, event.object, t,
                                        fetched, o1, o2)
        ELSE IF event.type \in SubscriptionEventTypes \cup InvoiceEventTypes
        THEN SyncCustomerFromStripe(table, ords, log1, customerId, t, fetched, o1, o2)
        ELSE Result(table, ords, Say(log1, "Unhandled event type"), FALSE)

\* As HandleEventCus, without its catch.
HandleEventCusNoCatch(table, ords, event, t, fetched, o1, o2) ==
    HandleEventBodyCus(table, ords, event, t, fetched, o1, o2)

\* handleEvent of the customer-id keyed webhook: the body inside its try/catch.
HandleEventCus(table, ords, event, t, fetched, o1, o2) ==
    Caught(HandleEventBodyCus(table, ords, event, t, fetched, o1, o2),
           "Error handling event")

\* ------------------------------------------------------------------ endpoint

Methods == {"POST", "OPTIONS", "GET"}

\* stripe-signature: no header, one that does not verify, one that does.
Signatures == {"absent", "invalid", "valid"}

AllSet == [stripeSecret |-> TRUE, stripeWebhookSecret |-> TRUE,
           supabaseUrl |-> TRUE, supabaseServiceKey |-> TRUE]

\* The configurations: everything set, or one variable missing.
Envs ==
    {AllSet,
     [AllSet EXCEPT !.stripeSecret = FALSE],
     [AllSet EXCEPT !.stripeWebhookSecret = FALSE],
     [AllSet EXCEPT !.supabaseUrl = FALSE],
     [AllSet EXCEPT !.supabaseServiceKey = FALSE]}

\* The requests: a well-formed signed POST for every event, and for the rest
\* of the methods and signatures one request each.
AnEvent == Event("customer.updated", [id |-> "cus_1", customer |-> NullStr])

RequestsOf(events) ==
    {[method |-> "POST", signature |-> "valid", event |-> ev] : ev \in events}
    \cup {[method |-> m, signature |-> sg, event |-> AnEvent] :
            m \in Methods, sg \in Signatures}

Requests == RequestsOf(Events)

\* The outcomes of the store calls a handler makes for an event: two calls for
\* the handlers that look the customer up first, one for the others.
CallPlans(event) ==
    IF event.type \in {"customer.subscription.created", "customer.subscription.updated",
                       "checkout.session.completed"}
    THEN StoreOutcomes \X StoreOutcomes
    ELSE StoreOutcomes \X {"ok"}

Reply(status, dispatched) == [status |-> status, dispatched |-> dispatched]

\* As Serve, but the signature header is looked for before the configuration.
ServeSignatureFirst(e, req) ==
    IF req.method = "OPTIONS" THEN Reply(204, FALSE)
    ELSE IF req.method # "POST" THEN Reply(405, FALSE)
    ELSE IF req.signature = "absent" THEN Reply(400, FALSE)
    ELSE IF ~e.stripeSecret \/ ~e.stripeWebhookSecret THEN Reply(500, FALSE)
    ELSE IF ~e.supabaseUrl \/ ~e.supabaseServiceKey THEN Reply(500, FALSE)
    ELSE IF req.signature # "valid" THEN Reply(400, FALSE)
    ELSE Reply(200, TRUE)

\* As Serve, but a signature that does not verify is let through.
ServeNoVerify(e, req) ==
    IF req.method = "OPTIONS" THEN Reply(204, FALSE)
    ELSE IF req.method # "POST" THEN Reply(405, FALSE)
    ELSE IF ~e.stripeSecret \/ ~e.stripeWebhookSecret THEN Reply(500, FALSE)
    ELSE IF ~e.supabaseUrl \/ ~e.supabaseServiceKey THEN Reply(500, FALSE)
    ELSE IF req.signature = "absent" THEN Reply(400, FALSE)
    ELSE Reply(200, TRUE)

\* Deno.serve of the webhook: the response, and whether the path taken passes
\* EdgeRuntime.waitUntil(handleEvent(event)).
Serve(e, req) ==
    IF req.method = "OPTIONS" THEN Reply(204, FALSE)
    ELSE IF req.method # "POST" THEN Reply(405, FALSE)
    ELSE IF ~e.stripeSecret \/ ~e.stripeWebhookSecret THEN Reply(500, FALSE)
    ELSE IF ~e.supabaseUrl \/ ~e.supabaseServiceKey THEN Reply(500, FALSE)
    ELSE IF req.signature = "absent" THEN Reply(400, FALSE)
    ELSE IF req.signature # "valid" THEN Reply(400, FALSE)
    ELSE Reply(200, TRUE)

\* ------------------------------------------------------------------ machine

\* No invocation under way.
Idle ==
    [phase |-> "idle", method |-> "none", signature |-> "none", event |-> AnEvent,
     attempt |-> 0, status |-> 0, dispatched |-> FALSE, log |-> <<>>,
     escaped |-> FALSE, calls |-> <<"ok", "ok">>, changed |-> FALSE,
     fetched |-> {}]

\* The trial scenario is followed for this subscription.
ScnSub == "sub_1"

IsScnCreated(event) ==
    /\ event.type = "customer.subscription.created"
    /\ event.object.id = ScnSub
    /\ event.object.customer = "cus_1"
    /\ event.object.status = "trialing"
    /\ event.object.trial_end = Some(5)
    /\ event.object.canceled_at = Null

\* The scenario's step after an event was handled: 1 after the
\* subscription-created event, 2 after a following invoice-payment-failed, 3
\* after a following invoice-payment-succeeded; 0 when another event was
\* handled or a store call failed.
ScnNext(step, event, plan) ==
    IF plan # <<"ok", "ok">> THEN 0
    ELSE IF IsScnCreated(event) THEN 1
    ELSE IF step = 1 /\ event.type = "invoice.payment_failed"
            /\ event.object.subscription = ScnSub THEN 2
    ELSE IF step = 2 /\ event.type = "invoice.payment_succeeded"
            /\ event.object.subscription = ScnSub THEN 3
    ELSE 0

\* A checkout request as it arrives: the method, the body's price_id,
\* success_url and cancel_url (NullStr when not given), the mode ("absent"
\* when not given) and the
\* Authorization header: absent, a token the identity provider rejects
\* ("invalid"), one it resolves to no user ("nouser"), or the token of a user.
CheckoutInput(m, price, success, cancel, mode, auth) ==
    [method |-> m, price_id |-> price, success_url |-> success,
     cancel_url |-> cancel, mode |-> mode, auth |-> auth]

\* No checkout request under way in a slot.
IdleReq ==
    [pc |-> "idle",
     input |-> CheckoutInput("POST", NullStr, NullStr, NullStr, "absent", "absent"),
     user |-> NullStr, mode |-> NullStr, status |-> 0, authCalled |-> FALSE,
     customer |-> NullStr, created |-> NullStr, inserted |-> FALSE,
     delTried |-> FALSE, session |-> NullStr, respCustomer |-> NullStr,
     url |-> FALSE, log |-> <<>>]

NoReqs == [r \in {1, 2} |-> IdleReq]

\* No second run of handleEvent is in flight.
NoTasks ==
    [t \in {1, 2} |-> [pc |-> "idle", event |-> AnEvent, lookup |-> "ok", log |-> <<>>]]

InitSub ==
    /\ variant = "sub"
    /\ env \in Envs
    /\ now = 1
    /\ customers = {Mapping1}
    /\ subs = {}
    /\ orders = {}
    /\ remote = NoRemote
    /\ cur = Idle
    /\ scn = 0
    /\ tasks = NoTasks
    /\ commits = <<>>
    /\ provCustomers = {[id |-> "cus_1", deleted |-> FALSE]}
    /\ sessions = {}
    /\ reqs = NoReqs

\* A request arrives and Deno.serve answers it; on the path that verified the
\* signature handleEvent was started and runs on after the answer.
Receive(req) ==
    LET r == Serve(env, req)
    IN  /\ cur.phase = "idle"
        /\ cur' = [phase |-> IF r.dispatched THEN "acked" ELSE "done",
                   method |-> req.method, signature |-> req.signature,
                   event |-> req.event, attempt |-> 1, status |-> r.status,
                   dispatched |-> r.dispatched, log |-> <<>>, escaped |-> FALSE,
                   calls |-> <<"ok", "ok">>, changed |-> FALSE, fetched |-> {}]
        /\ UNCHANGED <<provCustomers, sessions, reqs>>
        /\ UNCHANGED <<variant, env, tasks, commits, now, customers, subs, orders, remote, scn>>

\* The console.error messages of the handlers.
ErrorTags ==
    {"Failed to upsert subscription", "Failed to find customer record for subscription",
     "Error upserting subscription", "Error handling subscription created",
     "Error handling subscription updated", "Error marking subscription as deleted",
     "Error handling subscription deleted",
     "Error updating subscription after successful payment",
     "Error handling invoice payment succeeded",
     "Error updating subscription after failed payment",
     "Error handling invoice payment failed", "Invalid customer in checkout session",
     "Failed to find customer record", "Error creating order record",
     "Error handling checkout completion", "Error handling event"}

LoggedError(log) == \E i \in 1..Len(log) : log[i] \in ErrorTags

\* As HandleSub, but the answer waits for handleEvent and reports its failure.
HandleSubAwaited(plan) ==
    LET h == HandleEvent(customers, subs, orders, cur.event, now, plan[1], plan[2])
    IN  /\ variant = "sub"
        /\ cur.phase = "acked"
        /\ subs' = h.subs
        /\ orders' = h.orders
        /\ cur' = [cur EXCEPT !.phase = "done", !.log = h.log, !.escaped = h.exc,
                              !.calls = plan,
                              !.changed = (h.subs # subs \/ h.orders # orders),
                              !.status = IF LoggedError(h.log) THEN 500 ELSE 200]
        /\ scn' = ScnNext(scn, cur.event, plan)
        /\ UNCHANGED <<provCustomers, sessions, reqs>>
        /\ UNCHANGED <<variant, env, tasks, commits, now, customers, remote>>

\* As HandleSub, but a run whose store call fails is started over instead of
\* ending.
HandleSubRetried(plan) ==
    LET h == HandleEvent(customers, subs, orders, cur.event, now, plan[1], plan[2])
    IN  /\ variant = "sub"
        /\ cur.phase = "acked"
        /\ subs' = h.subs
        /\ orders' = h.orders
        /\ cur' = [cur EXCEPT !.phase = IF LoggedError(h.log) THEN "acked" ELSE "done",
                              !.log = h.log, !.escaped = h.exc, !.calls = plan,
                              !.changed = (h.subs # subs \/ h.orders # orders)]
        /\ scn' = ScnNext(scn, cur.event, plan)
        /\ UNCHANGED <<provCustomers, sessions, reqs>>
        /\ UNCHANGED <<variant, env, tasks, commits, now, customers, remote>>

\* As HandleSub, but a mapping is created for the event's remote customer
\* when it has none.
HandleSubLazyMapping(plan) ==
    LET h == HandleEvent(customers, subs, orders, cur.event, now, plan[1], plan[2])
        c == IF "customer" \in DOMAIN cur.event.object
             THEN cur.event.object.customer ELSE NullStr
    IN  /\ variant = "sub"
        /\ cur.phase = "acked"
        /\ subs' = h.subs
        /\ orders' = h.orders
        /\ customers' =
             IF c \in CustomerIds /\ c \notin {m.customer_id : m \in customers}
             THEN customers \cup {[id |-> NewId(customers), user_id |-> "user_2",
                                   customer_id |-> c, deleted_at |-> Null]}
             ELSE customers
        /\ cur' = [cur EXCEPT !.phase = "done", !.log = h.log, !.escaped = h.exc,
                              !.calls = plan,
                              !.changed = (h.subs # subs \/ h.orders # orders)]
        /\ scn' = ScnNext(scn, cur.event, plan)
        /\ UNCHANGED <<provCustomers, sessions, reqs>>
        /\ UNCHANGED <<variant, env, tasks, commits, now, remote>>

\* The handleEvent that was started runs to its end; plan holds the outcomes
\* of its store calls.
HandleSub(plan) ==
    LET h == HandleEvent(customers, subs, orders, cur.event, now, plan[1], plan[2])
    IN  /\ variant = "sub"
        /\ cur.phase = "acked"
        /\ subs' = h.subs
        /\ orders' = h.orders
        /\ cur' = [cur EXCEPT !.phase = "done", !.log = h.log, !.escaped = h.exc,
                              !.calls = plan,
                              !.changed = (h.subs # subs \/ h.orders # orders)]
        /\ scn' = ScnNext(scn, cur.event, plan)
        /\ UNCHANGED <<provCustomers, sessions, reqs>>
        /\ UNCHANGED <<variant, env, tasks, commits, now, customers, remote>>

\* The customer an event of the customer-id keyed webhook is synced for.
CustomerOf(event) ==
    IF "customer" \in DOMAIN event.object /\ event.object.customer \in CustomerIds
    THEN event.object.customer ELSE "cus_1"

\* The events sent to the customer-id keyed webhook, which reads the type, the
\* customer and, of a session, mode and payment status: one per type for the
\* customer with a subscription, one of the other customer, the sessions,
\* events of other types, and events of the types it handles whose object
\* has no customer field or a customer that is no id.
EventsCus ==
    {Event(t, SubscriptionObject("sub_1", "cus_1", "active", Null, Null)) :
        t \in SubscriptionEventTypes}
    \cup {Event("customer.subscription.updated",
                SubscriptionObject("sub_2", "cus_2", "active", Null, Null))}
    \cup {Event(t, [id |-> "in_1", customer |-> "cus_1", subscription |-> "sub_1"]) :
            t \in InvoiceEventTypes}
    \cup {Event("checkout.session.completed", ob) : ob \in SessionObjects}
    \cup {Event("customer.updated", [id |-> "cus_1", customer |-> NullStr]),
          Event("charge.succeeded", [id |-> "ch_1", customer |-> "cus_1"]),
          Event("product.created", [id |-> "prod_1"])}
    \cup {Event("invoice.payment_failed",
                [id |-> "in_1", customer |-> c, subscription |-> "sub_1"]) :
            c \in {NullStr, "", "object"}}
    \cup {Event("customer.subscription.deleted",
                SubscriptionObject("sub_1", "object", "canceled", Null, Some(7)))}
    \cup {Event(t, [id |-> "in_1", subscription |-> "sub_1"]) : t \in InvoiceEventTypes}

\* The outcomes of the calls of the customer-id keyed handlers: the provider
\* call resolves or rejects, the store call resolves with or without error.
CallPlansCus == {"ok", "throw"} \X StoreOutcomes

\* The handleEvent that was started runs to its end, in the customer-id keyed
\* webhook; it reads what the provider holds for the event's customer.
HandleCus(plan) ==
    LET fetched == remote[CustomerOf(cur.event)]
        h == HandleEventCus(subs, orders, cur.event, now, fetched, plan[1], plan[2])
    IN  /\ variant = "cus"
        /\ cur.phase = "acked"
        /\ subs' = h.subs
        /\ orders' = h.orders
        /\ cur' = [cur EXCEPT !.phase = "done", !.log = h.log, !.escaped = h.exc,
                              !.calls = plan,
                              !.changed = (h.subs # subs \/ h.orders # orders),
                              !.fetched = fetched]
        /\ UNCHANGED <<provCustomers, sessions, reqs>>
        /\ UNCHANGED <<variant, env, tasks, commits, now, customers, remote, scn>>

\* The provider's subscription of a customer changes.
ProviderChange(c, to) ==
    /\ variant = "cus"
    /\ cur.phase # "acked"
    /\ remote[c] # to
    /\ remote' = [remote EXCEPT ![c] = to]
    /\ UNCHANGED <<provCustomers, sessions, reqs>>
    /\ UNCHANGED <<variant, env, tasks, commits, now, customers, subs, orders, cur, scn>>

InitCus ==
    /\ variant = "cus"
    /\ env = AllSet
    /\ now = 1
    /\ customers = {Mapping1}
    /\ subs = {}
    /\ orders = {}
    /\ remote = NoRemote
    /\ cur = Idle
    /\ scn = 0
    /\ tasks = NoTasks
    /\ commits = <<>>
    /\ provCustomers = {[id |-> "cus_1", deleted |-> FALSE]}
    /\ sessions = {}
    /\ reqs = NoReqs

\* At-least-once delivery: the provider sends the event just handled once
\* more.  The request is the same, so is the answer of Deno.serve; handleEvent
\* is started again.  calls, log and changed are those of the earlier run until
\* the new one ends.
Redeliver ==
    /\ cur.phase = "done"
    /\ cur.dispatched
    /\ cur.attempt < MaxAttempts
    /\ cur' = [cur EXCEPT !.phase = "acked", !.attempt = @ + 1]
    /\ UNCHANGED <<provCustomers, sessions, reqs>>
    /\ UNCHANGED <<variant, env, tasks, commits, now, customers, subs, orders, remote, scn>>

\* The invocation is over.
Finish ==
    /\ cur.phase = "done"
    /\ cur' = Idle
    /\ UNCHANGED <<provCustomers, sessions, reqs>>
    /\ UNCHANGED <<variant, env, tasks, commits, now, customers, subs, orders, remote, scn>>

NextSub ==
    \/ \E req \in Requests : Receive(req)
    \/ \E plan \in CallPlans(cur.event) : HandleSub(plan)
    \/ Redeliver
    \/ Finish

SpecSub == InitSub /\ [][NextSub]_vars

NextCus ==
    \/ \E req \in RequestsOf(EventsCus) : Receive(req)
    \/ \E plan \in CallPlansCus : HandleCus(plan)
    \/ \E c \in {"cus_1"} : \E to \in {{}} \cup {{x} : x \in RemoteSubscriptions(c)} :
            ProviderChange(c, to)
    \/ Redeliver
    \/ Finish

SpecCus == InitCus /\ [][NextCus]_vars

\* Either webhook deployed.
Spec == (InitSub \/ InitCus) /\ [][NextSub \/ NextCus]_vars

\* ------------------------------------------- two deliveries at the same time

\* The subscription both deliveries are about.
RaceSub == "sub_1"

\* The events of the two deliveries: every handler that writes the row of
\* RaceSub, with subscription objects that differ in status and times.
RaceEvents ==
    {Event("customer.subscription.created",
           SubscriptionObject(RaceSub, "cus_1", "trialing", Some(5), Null)),
     Event("customer.subscription.updated",
           SubscriptionObject(RaceSub, "cus_1", "active", Null, Null)),
     Event("customer.subscription.updated",
           SubscriptionObject(RaceSub, "cus_1", "canceled", Null, Some(7))),
     Event("customer.subscription.deleted",
           SubscriptionObject(RaceSub, "cus_1", "canceled", Null, Some(7))),
     Event("invoice.payment_failed",
           [id |-> "in_1", customer |-> "cus_1", subscription |-> RaceSub]),
     Event("invoice.payment_succeeded",
           [id |-> "in_1", customer |-> "cus_1", subscription |-> RaceSub]),
     Event("checkout.session.completed", SessionObject("cus_1", "payment", "paid"))}

Upserts == {"customer.subscription.created", "customer.subscription.updated"}

\* The events whose handler makes two store calls: the customer lookup, then
\* the write.
TwoCalls == Upserts \cup {"checkout.session.completed"}

\* Deno.serve verified the request of delivery t and started handleEvent for
\* it; delivery 1 arrives first.  The handlers of created, updated and
\* checkout completed look the customer up before they write, the others write
\* at once.
Deliver(t, event) ==
    /\ tasks[t].pc = "idle"
    /\ t = 2 => tasks[1].pc # "idle"
    /\ tasks' = [tasks EXCEPT ![t] =
                    [pc |-> IF event.type \in TwoCalls THEN "lookup" ELSE "write",
                     event |-> event, lookup |-> "ok", log |-> <<>>]]
    /\ UNCHANGED <<provCustomers, sessions, reqs>>
    /\ UNCHANGED <<variant, env, now, customers, subs, orders, remote, cur, scn, commits>>

\* The first store call of upsertSubscription or handleCheckoutCompleted in
\* run t: the customer lookup.
\* The run goes on to its write; a lookup that failed makes the run end there
\* without one.
Lookup(t, o) ==
    /\ tasks[t].pc = "lookup"
    /\ tasks' = [tasks EXCEPT ![t].pc = "write", ![t].lookup = o]
    /\ UNCHANGED <<provCustomers, sessions, reqs>>
    /\ UNCHANGED <<variant, env, now, customers, subs, orders, remote, cur, scn, commits>>

\* The rows of stripe_subscriptions the write of an event finds to write on:
\* an upsert always has one (it inserts it if need be), an update has those
\* its filter matches, the insert of an order has none.
Matched(table, event) ==
    IF event.type \in Upserts THEN {event.object.id}
    ELSE IF event.type = "checkout.session.completed" THEN {}
    ELSE IF event.type = "invoice.payment_succeeded"
    THEN {r.id : r \in {q \in RowsBySub(table, event.object.subscription) :
                          q.status = "past_due"}}
    ELSE IF event.type = "invoice.payment_failed"
    THEN {r.id : r \in RowsBySub(table, event.object.subscription)}
    ELSE {r.id : r \in RowsBySub(table, event.object.id)}

\* The write of run t: the upsert, update or insert of its handler, on the
\* tables as they are now.  The customer table does not change while the runs are in flight,
\* so the lookup made earlier found what it would find now.
Write(t, o) ==
    LET ev == tasks[t].event
        h == IF ev.type \in TwoCalls
             THEN HandleEvent(customers, subs, orders, ev, now, tasks[t].lookup, o)
             ELSE HandleEvent(customers, subs, orders, ev, now, o, "ok")
        committed == /\ tasks[t].lookup = "ok"
                     /\ o = "ok"
                     /\ ~LoggedError(h.log)
                     /\ Matched(subs, ev) # {}
    IN  /\ tasks[t].pc = "write"
        /\ subs' = h.subs
        /\ orders' = h.orders
        /\ tasks' = [tasks EXCEPT ![t].pc = "done", ![t].log = h.log]
        /\ commits' = IF committed THEN Append(commits, t) ELSE commits
        /\ UNCHANGED <<provCustomers, sessions, reqs>>
        /\ UNCHANGED <<variant, env, now, customers, remote, cur, scn>>

\* The table before the two deliveries: without a row of RaceSub, or with the
\* row an earlier subscription-updated event with status past_due wrote.
RaceStores ==
    {{},
     {[SubscriptionData(Mapping1,
                        SubscriptionObject(RaceSub, "cus_1", "past_due", Null, Null),
                        now) EXCEPT !.id = 1]}}

InitRace ==
    /\ variant = "sub"
    /\ env = AllSet
    /\ now = 1
    /\ customers = {Mapping1}
    /\ subs \in RaceStores
    /\ orders = {}
    /\ remote = NoRemote
    /\ cur = Idle
    /\ scn = 0
    /\ tasks = NoTasks
    /\ commits = <<>>
    /\ provCustomers = {[id |-> "cus_1", deleted |-> FALSE]}
    /\ sessions = {}
    /\ reqs = NoReqs

NextRace ==
    \/ \E t \in {1, 2} : \E event \in RaceEvents : Deliver(t, event)
    \/ \E t \in {1, 2} : \E o \in StoreOutcomes : Lookup(t, o)
    \/ \E t \in {1, 2} : \E o \in StoreOutcomes : Write(t, o)

SpecRace == InitRace /\ [][NextRace]_vars

\* ------------------------------------------------------------------ checkout

Slots == {1, 2}

UserIds == {"user_1", "user_2"}

\* The ids stripe.customers.create hands out, in the order it does.
NewCustomerIds == <<"cus_2", "cus_3", "cus_4">>

\* subscription_data.trial_period_days of a subscription checkout
TrialPeriodDays == 7

\* The remote customer ids: text, none of them a uuid.
RemoteCustomerIds == CustomerIds \cup {NewCustomerIds[i] : i \in 1..Len(NewCustomerIds)}

\* The provider's customer of the mapping the store may start with.
ProvCustomer1 == [id |-> "cus_1", deleted |-> FALSE]

\* The id of a new customer: one the provider has not used.
NewCustomerId(prov) ==
    LET free == {i \in 1..Len(NewCustomerIds) : NewCustomerIds[i] \notin {c.id : c \in prov}}
    IN  NewCustomerIds[CHOOSE i \in free : \A j \in free : i <= j]

\* stripe.customers.del(id)
DelCustomer(prov, id) ==
    {IF c.id = id THEN [c EXCEPT !.deleted = TRUE] ELSE c : c \in prov}

\* As CheckoutValidate, but the Authorization header and the token are looked
\* at before the body.
CheckoutValidateAuthFirst(v, e, inp) ==
    LET mode == IF v = "sub" /\ inp.mode = "absent" THEN "subscription" ELSE inp.mode
        R(st, called, tag) ==
            [status |-> st, authCalled |-> called, user |-> NullStr, mode |-> mode,
             log |-> IF tag = NullStr THEN <<>> ELSE <<tag>>]
    IN  IF inp.method = "OPTIONS" THEN R(204, FALSE, NullStr)
        ELSE IF inp.method # "POST" THEN R(405, FALSE, NullStr)
        ELSE IF ~e.stripeSecret THEN R(500, FALSE, "STRIPE_SECRET_KEY is missing")
        ELSE IF ~e.supabaseUrl \/ ~e.supabaseServiceKey
        THEN R(500, FALSE, "Supabase configuration missing")
        ELSE IF inp.auth = "absent" THEN R(401, FALSE, NullStr)
        ELSE IF inp.auth = "invalid" THEN R(401, TRUE, "Failed to authenticate user")
        ELSE IF inp.auth = "nouser" THEN R(404, TRUE, NullStr)
        ELSE IF inp.price_id = NullStr \/ inp.success_url = NullStr
                \/ inp.cancel_url = NullStr
                \/ (v = "cus" /\ mode = "absent")
        THEN R(400, TRUE, NullStr)
        ELSE IF mode \notin {"subscription", "payment"} THEN R(400, TRUE, NullStr)
        ELSE [R(0, TRUE, NullStr) EXCEPT !.user = inp.auth]

\* As CheckoutValidate, but a token the identity provider does not resolve to
\* a user is taken as the token of user_1.
CheckoutValidateAnyToken(v, e, inp) ==
    LET mode == IF v = "sub" /\ inp.mode = "absent" THEN "subscription" ELSE inp.mode
        R(st, called, tag) ==
            [status |-> st, authCalled |-> called, user |-> NullStr, mode |-> mode,
             log |-> IF tag = NullStr THEN <<>> ELSE <<tag>>]
    IN  IF inp.method = "OPTIONS" THEN R(204, FALSE, NullStr)
        ELSE IF inp.method # "POST" THEN R(405, FALSE, NullStr)
        ELSE IF ~e.stripeSecret THEN R(500, FALSE, "STRIPE_SECRET_KEY is missing")
        ELSE IF ~e.supabaseUrl \/ ~e.supabaseServiceKey
        THEN R(500, FALSE, "Supabase configuration missing")
        ELSE IF inp.price_id = NullStr \/ inp.success_url = NullStr
                \/ inp.cancel_url = NullStr
                \/ (v = "cus" /\ mode = "absent")
        THEN R(400, FALSE, NullStr)
        ELSE IF mode \notin {"subscription", "payment"} THEN R(400, FALSE, NullStr)
        ELSE IF inp.auth = "absent" THEN R(401, FALSE, NullStr)
        ELSE [R(0, TRUE, NullStr) EXCEPT
                !.user = IF inp.auth \in {"invalid", "nouser"} THEN "user_1" ELSE inp.auth]

\* As CheckoutValidate, but a mode that is not given is taken as
\* 'subscription' in both functions.
CheckoutValidateDefaultMode(v, e, inp) ==
    LET mode == IF inp.mode = "absent" THEN "subscription" ELSE inp.mode
        R(st, called, tag) ==
            [status |-> st, authCalled |-> called, user |-> NullStr, mode |-> mode,
             log |-> IF tag = NullStr THEN <<>> ELSE <<tag>>]
    IN  IF inp.method = "OPTIONS" THEN R(204, FALSE, NullStr)
        ELSE IF inp.method # "POST" THEN R(405, FALSE, NullStr)
        ELSE IF ~e.stripeSecret THEN R(500, FALSE, "STRIPE_SECRET_KEY is missing")
        ELSE IF ~e.supabaseUrl \/ ~e.supabaseServiceKey
        THEN R(500, FALSE, "Supabase configuration missing")
        ELSE IF inp.price_id = NullStr \/ inp.success_url = NullStr
                \/ inp.cancel_url = NullStr
        THEN R(400, FALSE, NullStr)
        ELSE IF mode \notin {"subscription", "payment"} THEN R(400, FALSE, NullStr)
        ELSE IF inp.auth = "absent" THEN R(401, FALSE, NullStr)
        ELSE IF inp.auth = "invalid" THEN R(401, TRUE, "Failed to authenticate user")
        ELSE IF inp.auth = "nouser" THEN R(404, TRUE, NullStr)
        ELSE [R(0, TRUE, NullStr) EXCEPT !.user = inp.auth]

\* Deno.serve of the checkout up to the first store call: method, environment,
\* parameters, mode, Authorization header, auth.getUser.  status 0: the request
\* goes on.  The function embedded in SuccessPage.tsx (v = "sub") takes a mode
\* that is not given as 'subscription'; stripe-checkout/index.ts (v = "cus")
\* counts it among the missing parameters.
CheckoutValidate(v, e, inp) ==
    LET mode == IF v = "sub" /\ inp.mode = "absent" THEN "subscription" ELSE inp.mode
        R(st, called, tag) ==
            [status |-> st, authCalled |-> called, user |-> NullStr, mode |-> mode,
             log |-> IF tag = NullStr THEN <<>> ELSE <<tag>>]
    IN  IF inp.method = "OPTIONS" THEN R(204, FALSE, NullStr)
        ELSE IF inp.method # "POST" THEN R(405, FALSE, NullStr)
        ELSE IF ~e.stripeSecret THEN R(500, FALSE, "STRIPE_SECRET_KEY is missing")
        ELSE IF ~e.supabaseUrl \/ ~e.supabaseServiceKey
        THEN R(500, FALSE, "Supabase configuration missing")
        ELSE IF inp.price_id = NullStr \/ inp.success_url = NullStr
                \/ inp.cancel_url = NullStr
                \/ (v = "cus" /\ mode = "absent")
        THEN R(400, FALSE, NullStr)
        ELSE IF mode \notin {"subscription", "payment"} THEN R(400, FALSE, NullStr)
        ELSE IF inp.auth = "absent" THEN R(401, FALSE, NullStr)
        ELSE IF inp.auth = "invalid" THEN R(401, TRUE, "Failed to authenticate user")
        ELSE IF inp.auth = "nouser" THEN R(404, TRUE, NullStr)
        ELSE [R(0, TRUE, NullStr) EXCEPT !.user = inp.auth]

\* As SelectMappingMaybeSingle, but the caller's mapping is not found.
SelectMappingNoneFound(table, u, o) ==
    IF o = "ok"
    THEN [error |-> FALSE, data |-> {}]
    ELSE [error |-> TRUE, data |-> {}]

\* from('stripe_customers').select(..).eq('user_id', u).is('deleted_at', null)
\* .maybeSingle(): no row is no error, more than one row is.
SelectMappingMaybeSingle(table, u, o) ==
    LET m == {r \in table : r.user_id = u /\ r.deleted_at = Null}
    IN  IF o = "ok" /\ Cardinality(m) <= 1
        THEN [error |-> FALSE, data |-> m]
        ELSE [error |-> TRUE, data |-> {}]

\* The constraints of stripe_customers on a new row: customer_id is UNIQUE.
\* user_id has an index and a foreign key, and no unique constraint.
MappingRowAccepted(table, u, c) == c \notin {r.customer_id : r \in table}

\* from('stripe_customers').insert({user_id, customer_id})
InsertMapping(table, u, c, o) ==
    IF o # "ok" \/ ~MappingRowAccepted(table, u, c) \/ FreeIds(table) = {}
    THEN [error |-> TRUE, rows |-> table]
    ELSE [error |-> FALSE,
          rows |-> table \cup {[id |-> NewId(table), user_id |-> u, customer_id |-> c,
                                deleted_at |-> Null]}]

\* from('stripe_customers').delete().eq('customer_id', c)
DeleteMapping(table, c, o) ==
    IF o # "ok" THEN table ELSE {r \in table : r.customer_id # c}

\* The row stripe-checkout/index.ts inserts for a subscription checkout: the
\* provider's customer id as customer_id, status 'not_started', no
\* subscription_id.
NotStartedRow(c) ==
    [id |-> 0, customer_id |-> c, subscription_id |-> NullStr, status |-> "not_started"]

\* As InsertSubNotStarted, but for a table whose customer_id is a text column,
\* whose status takes 'not_started' and whose subscription_id may be null.
InsertSubNotStartedTextKey(table, c, o) ==
    IF o # "ok" \/ FreeIds(table) = {}
    THEN [error |-> TRUE, rows |-> table]
    ELSE [error |-> FALSE,
          rows |-> table \cup {[NotStartedRow(c) EXCEPT !.id = NewId(table)]}]

\* from('stripe_subscriptions').insert({customer_id, status: 'not_started'}):
\* status is of the enum subscription_status, customer_id is a uuid column and
\* takes no remote customer id, subscription_id is NOT NULL.
InsertSubNotStarted(table, c, o) ==
    IF \/ o # "ok"
       \/ NotStartedRow(c).status \notin SubscriptionStatus
       \/ c \in RemoteCustomerIds
       \/ NotStartedRow(c).subscription_id = NullStr
       \/ FreeIds(table) = {}
    THEN [error |-> TRUE, rows |-> table]
    ELSE [error |-> FALSE,
          rows |-> table \cup {[NotStartedRow(c) EXCEPT !.id = NewId(table)]}]

\* from('stripe_subscriptions').select('status').eq('customer_id', c)
\* .maybeSingle(): customer_id is a uuid column, and a value that is no uuid
\* is an error of the query.
SelectSubByCustomer(table, c, o) ==
    LET m == {r \in table : r.customer_id = c}
    IN  IF o = "ok" /\ c \notin RemoteCustomerIds /\ Cardinality(m) <= 1
        THEN [error |-> FALSE, data |-> m]
        ELSE [error |-> TRUE, data |-> {}]

\* The checkout requests.  Slot 1 takes, for user_1, a well-formed request of
\* either mode, and one request for each way of being turned away, and
\* requests that fail two checks at once (input and token); slot 2 takes the
\* well-formed requests of either user, for another price and other URLs.
CheckoutInputs(r) ==
    IF r # 1
    THEN {CheckoutInput("POST", "price_pro", "success_2", "cancel_2", m, u) :
            m \in {"subscription", "payment"}, u \in UserIds}
    ELSE {CheckoutInput("POST", "price_std", "success_1", "cancel_1", m, "user_1") :
            m \in {"subscription", "payment", "absent", "other"}}
         \cup {CheckoutInput("POST", NullStr, "success_1", "cancel_1", "payment", "user_1"),
               CheckoutInput("POST", "price_std", NullStr, "cancel_1", "payment", "user_1"),
               CheckoutInput("POST", "price_std", "success_1", NullStr, "payment", "user_1"),
               CheckoutInput("POST", NullStr, "success_1", "cancel_1", "absent", "user_1")}
         \cup {CheckoutInput(m, "price_std", "success_1", "cancel_1", "payment", "user_1") :
                 m \in {"OPTIONS", "GET"}}
         \cup {CheckoutInput("POST", "price_std", "success_1", "cancel_1", "payment", a) :
                 a \in {"absent", "invalid", "nouser"}}
         \cup {CheckoutInput("POST", NullStr, "success_1", "cancel_1", "payment", a) :
                 a \in {"absent", "invalid"}}
         \cup {CheckoutInput("POST", "price_std", "success_1", "cancel_1", "other", "absent")}

\* What a call to the provider can do: resolve or reject.
ProviderOutcomes == {"ok", "throw"}

\* stripe.checkout.sessions.create resolves with a session that has a url,
\* resolves with one whose url is null, or rejects.
SessionOutcomes == {"ok", "nourl", "throw"}

\* The request of slot r ends with this status and message.
Respond(q, st, tag) ==
    [q EXCEPT !.pc = "done", !.status = st,
              !.log = IF tag = NullStr THEN @ ELSE Say(@, tag)]

\* After the customer is known: stripe-checkout/index.ts sees to the
\* subscription record of a subscription checkout, the embedded function goes
\* on to the session.
AfterCustomer(v, mode, isNew) ==
    IF v = "cus" /\ mode = "subscription"
    THEN (IF isNew THEN "subinsert" ELSE "subensure")
    ELSE "session"

\* A request arrives: Deno.serve up to the mapping lookup.
Begin(r, inp) ==
    LET v == CheckoutValidate(variant, env, inp)
    IN  /\ reqs[r].pc = "idle"
        /\ reqs' = [reqs EXCEPT ![r] =
                      [IdleReq EXCEPT !.input = inp, !.status = v.status,
                                      !.authCalled = v.authCalled, !.user = v.user,
                                      !.mode = v.mode, !.log = v.log,
                                      !.pc = IF v.status = 0 THEN "lookup" ELSE "done"]]
        /\ UNCHANGED <<provCustomers, sessions, variant, env, tasks, commits, now,
                       customers, subs, orders, remote, cur, scn>>

\* The lookup of the caller's mapping.
LookupMapping(r, o) ==
    LET q == reqs[r]
        sel == SelectMappingMaybeSingle(customers, q.user, o)
        c == (CHOOSE m \in sel.data : TRUE).customer_id
    IN  /\ q.pc = "lookup"
        /\ reqs' = [reqs EXCEPT ![r] =
                      IF sel.error
                      THEN Respond(q, 500, "Failed to fetch customer information")
                      ELSE IF sel.data = {}
                      THEN [q EXCEPT !.pc = "create"]
                      ELSE [q EXCEPT !.customer = c,
                                     !.pc = AfterCustomer(variant, q.mode, FALSE)]]
        /\ UNCHANGED <<provCustomers, sessions, variant, env, tasks, commits, now,
                       customers, subs, orders, remote, cur, scn>>

\* stripe.customers.create
CreateRemote(r, o) ==
    LET q == reqs[r]
        c == NewCustomerId(provCustomers)
    IN  /\ q.pc = "create"
        /\ IF o = "ok"
           THEN /\ provCustomers' = provCustomers \cup {[id |-> c, deleted |-> FALSE]}
                /\ reqs' = [reqs EXCEPT ![r] = [q EXCEPT !.created = c, !.pc = "insert"]]
           ELSE /\ provCustomers' = provCustomers
                /\ reqs' = [reqs EXCEPT ![r] =
                              Respond(q, 500, "Failed to create Stripe customer")]
        /\ UNCHANGED <<sessions, variant, env, tasks, commits, now,
                       customers, subs, orders, remote, cur, scn>>

\* The insert of the mapping of the customer just created.
SaveMapping(r, o) ==
    LET q == reqs[r]
        ins == InsertMapping(customers, q.user, q.created, o)
    IN  /\ q.pc = "insert"
        /\ customers' = ins.rows
        /\ reqs' = [reqs EXCEPT ![r] =
                      IF ins.error
                      THEN [q EXCEPT !.pc = "cleanup",
                                     !.log = Say(@, "Failed to save customer information")]
                      ELSE [q EXCEPT !.inserted = TRUE, !.customer = q.created,
                                     !.pc = AfterCustomer(variant, q.mode, TRUE)]]
        /\ UNCHANGED <<provCustomers, sessions, variant, env, tasks, commits, now,
                       subs, orders, remote, cur, scn>>

\* As CleanUpCustomer, but the customer is left at the provider.
CleanUpCustomerSkipped(r, o) ==
    /\ reqs[r].pc = "cleanup"
    /\ provCustomers' = provCustomers
    /\ reqs' = [reqs EXCEPT ![r] = Respond(reqs[r], 500, NullStr)]
    /\ UNCHANGED <<sessions, variant, env, tasks, commits, now,
                   customers, subs, orders, remote, cur, scn>>

\* The mapping was not saved: stripe.customers.del on the customer created;
\* its failure is logged.  The answer is 500 either way.
CleanUpCustomer(r, o) ==
    LET q == reqs[r]
        tried == [q EXCEPT !.delTried = TRUE]
    IN  /\ q.pc = "cleanup"
        /\ provCustomers' = IF o = "ok" THEN DelCustomer(provCustomers, q.created)
                            ELSE provCustomers
        /\ reqs' = [reqs EXCEPT ![r] =
                      Respond(tried, 500,
                              IF o = "ok" THEN NullStr
                              ELSE "Failed to clean up Stripe customer")]
        /\ UNCHANGED <<sessions, variant, env, tasks, commits, now,
                       customers, subs, orders, remote, cur, scn>>

\* stripe-checkout/index.ts, new customer, subscription mode: the insert of
\* the 'not_started' row.
SubInsert(r, o) ==
    LET q == reqs[r]
        ins == InsertSubNotStarted(subs, q.customer, o)
    IN  /\ q.pc = "subinsert"
        /\ subs' = ins.rows
        /\ reqs' = [reqs EXCEPT ![r] =
                      IF ins.error
                      THEN [q EXCEPT !.pc = "subdel",
                                     !.log = Say(@, "Failed to create subscription record")]
                      ELSE [q EXCEPT !.pc = "session"]]
        /\ UNCHANGED <<provCustomers, sessions, variant, env, tasks, commits, now,
                       customers, orders, remote, cur, scn>>

\* As SubCleanUpDel, but the mapping is deleted also when
\* stripe.customers.del rejects: each call in a try of its own.
SubCleanUpDelOwnTry(r, o) ==
    LET q == reqs[r]
        tried == [q EXCEPT !.delTried = TRUE]
    IN  /\ q.pc = "subdel"
        /\ IF o = "ok"
           THEN /\ provCustomers' = DelCustomer(provCustomers, q.customer)
                /\ reqs' = [reqs EXCEPT ![r] = [tried EXCEPT !.pc = "subdelete"]]
           ELSE /\ provCustomers' = provCustomers
                /\ reqs' = [reqs EXCEPT ![r] =
                              [tried EXCEPT
                                 !.pc = "subdelete",
                                 !.log = Say(@,
                                   "Failed to clean up after subscription creation error")]]
        /\ UNCHANGED <<sessions, variant, env, tasks, commits, now,
                       customers, subs, orders, remote, cur, scn>>

\* Its clean-up, first call: stripe.customers.del.  When it rejects, the
\* mapping is not deleted.
SubCleanUpDel(r, o) ==
    LET q == reqs[r]
        tried == [q EXCEPT !.delTried = TRUE]
    IN  /\ q.pc = "subdel"
        /\ IF o = "ok"
           THEN /\ provCustomers' = DelCustomer(provCustomers, q.customer)
                /\ reqs' = [reqs EXCEPT ![r] = [tried EXCEPT !.pc = "subdelete"]]
           ELSE /\ provCustomers' = provCustomers
                /\ reqs' = [reqs EXCEPT ![r] =
                              Respond(tried, 500,
                                      "Failed to clean up after subscription creation error")]
        /\ UNCHANGED <<sessions, variant, env, tasks, commits, now,
                       customers, subs, orders, remote, cur, scn>>

\* Its clean-up, second call: the mapping of the customer is deleted.
SubCleanUpDelete(r, o) ==
    LET q == reqs[r]
    IN  /\ q.pc = "subdelete"
        /\ customers' = DeleteMapping(customers, q.customer, o)
        /\ reqs' = [reqs EXCEPT ![r] = Respond(q, 500, NullStr)]
        /\ UNCHANGED <<provCustomers, sessions, variant, env, tasks, commits, now,
                       subs, orders, remote, cur, scn>>

\* stripe-checkout/index.ts, existing customer, subscription mode: the
\* subscription record is looked up and, when there is none, inserted.
SubEnsure(r, o1, o2) ==
    LET q == reqs[r]
        sel == SelectSubByCustomer(subs, q.customer, o1)
        ins == InsertSubNotStarted(subs, q.customer, o2)
    IN  /\ q.pc = "subensure"
        /\ IF sel.error
           THEN /\ subs' = subs
                /\ reqs' = [reqs EXCEPT ![r] =
                              Respond(q, 500, "Failed to fetch subscription information")]
           ELSE IF sel.data # {}
           THEN /\ subs' = subs
                /\ reqs' = [reqs EXCEPT ![r] = [q EXCEPT !.pc = "session"]]
           ELSE /\ subs' = ins.rows
                /\ reqs' = [reqs EXCEPT ![r] =
                              IF ins.error
                              THEN Respond(q, 500,
                                     "Failed to create subscription record for existing customer")
                              ELSE [q EXCEPT !.pc = "session"]]
        /\ UNCHANGED <<provCustomers, sessions, variant, env, tasks, commits, now,
                       customers, orders, remote, cur, scn>>

\* As SessionParams, but the trial period is attached in either mode.
SessionParamsAlwaysTrial(id, q, c) ==
    [id |-> id, customer |-> c, payment_method_types |-> <<"card">>,
     line_items |-> <<[price |-> q.input.price_id, quantity |-> 1]>>,
     mode |-> q.mode, success_url |-> q.input.success_url,
     cancel_url |-> q.input.cancel_url,
     trial_period_days |-> Some(TrialPeriodDays)]

\* sessionParams, with the id of the session the provider creates from it:
\* the customer, one line item of the price asked for, the mode and the two
\* URLs, and subscription_data.trial_period_days in subscription mode.
SessionParams(id, q, c) ==
    [id |-> id, customer |-> c, payment_method_types |-> <<"card">>,
     line_items |-> <<[price |-> q.input.price_id, quantity |-> 1]>>,
     mode |-> q.mode, success_url |-> q.input.success_url,
     cancel_url |-> q.input.cancel_url,
     trial_period_days |-> IF q.mode = "subscription"
                           THEN Some(TrialPeriodDays) ELSE Null]

\* As CreateSession, but the session is opened for the customer of the first
\* mapping of the table.
CreateSessionFirstMapping(r, o) ==
    LET q == reqs[r]
        first == CHOOSE m \in customers : \A n \in customers : m.id <= n.id
        id == IF r = 1 THEN "cs_1" ELSE "cs_2"
    IN  /\ q.pc = "session"
        /\ customers # {}
        /\ sessions' = sessions \cup {SessionParams(id, q, first.customer_id)}
        /\ reqs' = [reqs EXCEPT ![r] =
                      [Respond(q, 200, NullStr) EXCEPT !.session = id,
                                                       !.respCustomer = q.customer,
                                                       !.url = (o = "ok")]]
        /\ UNCHANGED <<provCustomers, variant, env, tasks, commits, now,
                       customers, subs, orders, remote, cur, scn>>

\* stripe.checkout.sessions.create and the answer: 200 with the session id,
\* session.url as it came and the customer id, or 500 when the provider
\* rejects.
CreateSession(r, o) ==
    LET q == reqs[r]
        id == IF r = 1 THEN "cs_1" ELSE "cs_2"
    IN  /\ q.pc = "session"
        /\ IF o # "throw"
           THEN /\ sessions' = sessions \cup {SessionParams(id, q, q.customer)}
                /\ reqs' = [reqs EXCEPT ![r] =
                              [Respond(q, 200, NullStr) EXCEPT !.session = id,
                                                               !.respCustomer = q.customer,
                                                               !.url = (o = "ok")]]
           ELSE /\ sessions' = sessions
                /\ reqs' = [reqs EXCEPT ![r] =
                              Respond(q, 500, "Failed to create checkout session")]
        /\ UNCHANGED <<provCustomers, variant, env, tasks, commits, now,
                       customers, subs, orders, remote, cur, scn>>

\* The mapping of user_1, soft-deleted.
Mapping1Deleted == [Mapping1 EXCEPT !.deleted_at = Some(5)]

\* The events the webhook is sent while checkouts run: an update of sub_1 to
\* active and to a status the enum does not have, for the customer of the
\* first mapping and for the first customer a checkout creates.
WebhookEvents ==
    {Event("customer.subscription.updated", SubscriptionObject("sub_1", c, st, Null, Null)) :
        c \in CustomerIds, st \in {"active", "paused"}}

\* A verified webhook request is answered and its handleEvent runs to the end,
\* between two steps of the checkouts.  One delivery is followed.
DeliverWebhook(ev, plan) ==
    LET fetched == remote[CustomerOf(ev)]
        h == IF variant = "sub"
             THEN HandleEvent(customers, subs, orders, ev, now, plan[1], plan[2])
             ELSE HandleEventCus(subs, orders, ev, now, fetched, plan[1], plan[2])
    IN  /\ plan \in (IF variant = "sub" THEN CallPlans(ev) ELSE CallPlansCus)
        /\ env = AllSet
        /\ cur.phase = "idle"
        /\ subs' = h.subs
        /\ orders' = h.orders
        /\ cur' = [Idle EXCEPT !.phase = "done", !.method = "POST", !.signature = "valid",
                               !.event = ev, !.attempt = 1, !.status = 200,
                               !.dispatched = TRUE, !.log = h.log, !.escaped = h.exc,
                               !.calls = plan,
                               !.changed = (h.subs # subs \/ h.orders # orders),
                               !.fetched = fetched]
        /\ UNCHANGED <<provCustomers, sessions, reqs>>
        /\ UNCHANGED <<variant, env, tasks, commits, now,
                       customers, remote, scn>>

\* Either checkout function deployed, with everything configured or a
\* variable missing; user_1 has a mapping, a soft-deleted one or none, user_2
\* has none.
InitCheckout ==
    /\ variant \in {"sub", "cus"}
    /\ env \in {AllSet, [AllSet EXCEPT !.stripeSecret = FALSE],
                [AllSet EXCEPT !.supabaseServiceKey = FALSE]}
    /\ now = 1
    /\ customers \in {{}, {Mapping1}, {Mapping1Deleted}}
    /\ subs = {}
    /\ orders = {}
    /\ remote = NoRemote
    /\ cur = Idle
    /\ scn = 0
    /\ tasks = NoTasks
    /\ commits = <<>>
    /\ provCustomers = IF customers = {} THEN {} ELSE {ProvCustomer1}
    /\ sessions = {}
    /\ reqs = NoReqs

NextCheckout ==
    \/ \E r \in Slots : \E inp \in CheckoutInputs(r) : Begin(r, inp)
    \/ \E r \in Slots : \E o \in StoreOutcomes : LookupMapping(r, o)
    \/ \E r \in Slots : \E o \in ProviderOutcomes : CreateRemote(r, o)
    \/ \E r \in Slots : \E o \in StoreOutcomes : SaveMapping(r, o)
    \/ \E r \in Slots : \E o \in ProviderOutcomes : CleanUpCustomer(r, o)
    \/ \E r \in Slots : \E o \in StoreOutcomes : SubInsert(r, o)
    \/ \E r \in Slots : \E o \in ProviderOutcomes : SubCleanUpDel(r, o)
    \/ \E r \in Slots : \E o \in StoreOutcomes : SubCleanUpDelete(r, o)
    \/ \E r \in Slots : \E o1 \in StoreOutcomes : \E o2 \in StoreOutcomes : SubEnsure(r, o1, o2)
    \/ \E r \in Slots : \E o \in SessionOutcomes : CreateSession(r, o)
    \/ \E ev \in WebhookEvents : \E plan \in CallPlans(ev) \cup CallPlansCus :
            DeliverWebhook(ev, plan)

SpecCheckout == InitCheckout /\ [][NextCheckout]_vars

\* ------------------------------------------------- one checkout after another

\* The request of a slot is over and the function serves the next one.  The
\* provider has a customer id left to hand out.
Again(r) ==
    /\ reqs[r].pc = "done"
    /\ \E i \in 1..Len(NewCustomerIds) :
            NewCustomerIds[i] \notin {c.id : c \in provCustomers}
    /\ reqs' = [reqs EXCEPT ![r] = IdleReq]
    /\ UNCHANGED <<provCustomers, sessions, variant, env, tasks, commits, now,
                   customers, subs, orders, remote, cur, scn>>

\* Requests that do not overlap: one starts when no other is under way, and
\* callers come back with the same or another request any number of times.
NextSequential ==
    \/ \E r \in Slots : \E inp \in CheckoutInputs(r) :
            /\ \A s \in Slots : reqs[s].pc = "idle"
            /\ Begin(r, inp)
    \/ \E r \in Slots : \E o \in StoreOutcomes : LookupMapping(r, o)
    \/ \E r \in Slots : \E o \in ProviderOutcomes : CreateRemote(r, o)
    \/ \E r \in Slots : \E o \in StoreOutcomes : SaveMapping(r, o)
    \/ \E r \in Slots : \E o \in ProviderOutcomes : CleanUpCustomer(r, o)
    \/ \E r \in Slots : \E o \in StoreOutcomes : SubInsert(r, o)
    \/ \E r \in Slots : \E o \in ProviderOutcomes : SubCleanUpDel(r, o)
    \/ \E r \in Slots : \E o \in StoreOutcomes : SubCleanUpDelete(r, o)
    \/ \E r \in Slots : \E o1 \in StoreOutcomes : \E o2 \in StoreOutcomes : SubEnsure(r, o1, o2)
    \/ \E r \in Slots : \E o \in SessionOutcomes : CreateSession(r, o)
    \/ \E r \in Slots : Again(r)

SpecSequential == InitCheckout /\ [][NextSequential]_vars

\* ------------------------------------------------------------------ claims

RowsOf(table, sid) == {r \in table : r.subscription_id = sid}

\* The values run t writes: all columns but id for an upsert, the status (and
\* canceled_at) for an update.
HasFieldsOf(r, event) ==
    IF event.type \in Upserts
    THEN [r EXCEPT !.id = 0] = SubscriptionData(Mapping1, event.object, now)
    ELSE IF event.type = "customer.subscription.deleted"
    THEN r.status = "canceled" /\ r.canceled_at = Some(now)
    ELSE IF event.type = "invoice.payment_failed"
    THEN r.status = "past_due"
    ELSE r.status = "active"

\* C2: with two deliveries for the same subscription id in flight, whose store
\* calls interleave in any order, once one of them has committed a write
\* there is exactly one row of that subscription id, and it has the values
\* written by the delivery that committed last, whichever was delivered first.
C2_ConcurrentLastCommitWins ==
    commits # <<>>
    => /\ Cardinality(RowsOf(subs, RaceSub)) = 1
       /\ \A r \in RowsOf(subs, RaceSub) :
            HasFieldsOf(r, tasks[commits[Len(commits)]].event)

\* Both deliveries are over; the one delivered first, with status active,
\* committed after the one delivered second, with status canceled: the row is
\* active.
C2_Witness ==
    /\ tasks[1].pc = "done" /\ tasks[2].pc = "done"
    /\ commits = <<2, 1>>
    /\ tasks[1].event.type = "customer.subscription.updated"
    /\ tasks[1].event.object.status = "active"
    /\ tasks[2].event.type = "customer.subscription.updated"
    /\ tasks[2].event.object.status = "canceled"
    /\ \E r \in RowsOf(subs, RaceSub) : r.status = "active" /\ r.canceled_at = Null

\* C5: when handleEvent has ended no exception has left it, whatever the
\* outcome of the calls its handlers made: what upsertSubscription or
\* syncCustomerFromStripe throw again is logged by a catch above them.
C5_HandleEventNeverThrows ==
    cur.phase = "done" => ~cur.escaped

\* syncCustomerFromStripe threw again what the provider call threw, and the
\* catch of handleEvent logged it.
C5_Witness ==
    /\ variant = "cus"
    /\ cur.phase = "done"
    /\ cur.calls[1] = "throw"
    /\ cur.log[Len(cur.log)] = "Error handling event"
    /\ \E i \in 1..Len(cur.log) : cur.log[i] = "Failed to sync subscription for customer"
    /\ ~cur.escaped

SubIdsIn(table) == {r.subscription_id : r \in table}

\* A step in which the handleEvent of the invocation under way ran.
Handled == cur.phase = "acked" /\ cur'.phase = "done"

AllOk == <<"ok", "ok">>

StripUpdatedAt(rows) == {[r EXCEPT !.updated_at = Null] : r \in rows}

\* C1: when a subscription-created or subscription-updated event whose calls
\* succeeded is delivered again and its calls succeed again (and, where the
\* handler asks the provider for the subscription, the provider answers as it
\* did the first time), the second handling leaves the same Subscription rows
\* as the first: the same number of rows, and the same values in every column
\* but updated_at.
C1_DuplicateDeliveryIdempotent ==
    [][(/\ Handled
        /\ cur.attempt > 1
        /\ cur.event.type \in {"customer.subscription.created",
                               "customer.subscription.updated"}
        /\ cur.calls = AllOk
        /\ cur'.calls = AllOk
        /\ cur'.fetched = cur.fetched)
       => (/\ StripUpdatedAt(subs') = StripUpdatedAt(subs)
           /\ Cardinality(subs') = Cardinality(subs))]_vars

\* A subscription event was handled a second time, and the row it writes is there.
C1_Witness ==
    /\ cur.phase = "done"
    /\ cur.attempt = 2
    /\ cur.event.type = "customer.subscription.updated"
    /\ cur.calls = AllOk
    /\ ~cur.changed
    /\ \E r \in RowsOf(subs, cur.event.object.id) : r.status = cur.event.object.status
    /\ cur.log[Len(cur.log)] = "Successfully synced subscription"

\* C3: a request whose stripe-signature header is absent or does not verify is
\* never answered 200 (a POST with the configuration present is answered 400),
\* handleEvent is not started for it, and no row of any table is written while
\* it is under way.
C3_BadSignatureRejected ==
    /\ [](cur.phase # "idle" /\ cur.signature # "valid"
          => /\ cur.status # 200
             /\ ~cur.dispatched
             /\ cur.phase = "done"
             /\ (cur.method = "POST" /\ env = AllSet => cur.status = 400))
    /\ [][cur'.phase # "idle" /\ cur'.signature # "valid"
          => UNCHANGED <<customers, subs, orders>>]_vars

\* A configured POST with a signature that does not verify was answered 400.
C3_Witness ==
    /\ cur.phase = "done"
    /\ cur.method = "POST"
    /\ cur.signature = "invalid"
    /\ env = AllSet
    /\ cur.status = 400

\* C4: a POST with the configuration present and a signature that verifies is
\* answered 200, and the answer stays 200 when the handleEvent it started has
\* ended, whatever its store calls returned.
C4_VerifiedAlways200 ==
    (/\ cur.phase \in {"acked", "done"}
     /\ cur.method = "POST"
     /\ env = AllSet
     /\ cur.signature = "valid")
    => (cur.status = 200 /\ cur.dispatched)

\* The handler of a verified event met a store error and logged it; the answer is 200.
C4_Witness ==
    /\ cur.phase = "done"
    /\ cur.event.type = "customer.subscription.created"
    /\ cur.calls[2] = "error"
    /\ LoggedError(cur.log)
    /\ cur.status = 200

\* The one row of the scenario's subscription has these values.
ScnRowIs(status, trialEnd, canceledAt) ==
    /\ Cardinality(RowsOf(subs, ScnSub)) = 1
    /\ \A r \in RowsOf(subs, ScnSub) :
        /\ r.status = status
        /\ r.trial_end = trialEnd
        /\ r.canceled_at = canceledAt

\* C6: for the mapped customer, after subscription-created with status
\* trialing, trial_end = T and no cancellation time the stored row has status
\* trialing, trial_end = T and canceled_at = null; after a following
\* invoice-payment-failed for the same subscription id the status is past_due;
\* after a following invoice-payment-succeeded it is active.
C6_TrialScenario ==
    /\ (scn = 1 => ScnRowIs("trialing", Some(5000), Null))
    /\ (scn = 2 => ScnRowIs("past_due", Some(5000), Null))
    /\ (scn = 3 => ScnRowIs("active", Some(5000), Null))

\* The scenario has run to its end.
C6_Witness == scn = 3 /\ cur.phase = "done" /\ cur.event.type = "invoice.payment_succeeded"

\* C7: invoice-payment-succeeded changes a Subscription row only if the row has
\* the invoice's subscription id and status past_due, and what it changes is
\* the status, to active (and updated_at); when its store call succeeds every
\* such row is changed so.  Rows of any other status are left as they are.
C7_SucceededOnlyFromPastDue ==
    [][(Handled /\ cur.event.type = "invoice.payment_succeeded")
       => /\ Cardinality(subs') = Cardinality(subs)
          /\ \A r \in subs :
               IF /\ r.subscription_id = cur.event.object.subscription
                  /\ r.status = "past_due"
                  /\ cur'.calls = AllOk
               THEN [r EXCEPT !.status = "active", !.updated_at = Some(now)] \in subs'
               ELSE r \in subs']_vars

\* A past_due row was set to active by invoice-payment-succeeded.
C7_Witness ==
    /\ cur.phase = "done"
    /\ cur.event.type = "invoice.payment_succeeded"
    /\ cur.changed
    /\ \E r \in RowsOf(subs, cur.event.object.subscription) : r.status = "active"

\* C8: invoice-payment-failed whose store call succeeds sets the status of the
\* row with the invoice's subscription id to past_due whatever its status was,
\* canceled included; the rows of other subscription ids are unchanged.
C8_FailedAlwaysPastDue ==
    [][(Handled /\ cur.event.type = "invoice.payment_failed" /\ cur'.calls = AllOk)
       => /\ Cardinality(subs') = Cardinality(subs)
          /\ \A r \in subs :
               IF r.subscription_id = cur.event.object.subscription
               THEN [r EXCEPT !.status = "past_due", !.updated_at = Some(now)] \in subs'
               ELSE r \in subs']_vars

\* A row canceled by subscription-deleted is past_due after invoice-payment-failed,
\* beside a row of the other subscription.
C8_Witness ==
    /\ cur.phase = "done"
    /\ cur.event.type = "invoice.payment_failed"
    /\ cur.changed
    /\ \E r \in RowsOf(subs, cur.event.object.subscription) :
         r.status = "past_due" /\ r.canceled_at = Some(now)
    /\ Cardinality(SubIdsIn(subs)) = 2

\* C9: subscription-deleted whose store call succeeds leaves the row with the
\* event's subscription id in place, with status canceled and a canceled_at
\* that is not null; and no step removes a Subscription row: the set of stored
\* subscription ids never shrinks.
C9_DeletedCancelsNeverRemoves ==
    /\ [][(Handled /\ cur.event.type = "customer.subscription.deleted"
                   /\ cur'.calls = AllOk)
          => \A r \in RowsOf(subs, cur.event.object.id) :
               \E q \in subs' : /\ q.id = r.id
                                /\ q.subscription_id = r.subscription_id
                                /\ q.status = "canceled"
                                /\ q.canceled_at # Null]_vars
    /\ [][SubIdsIn(subs) \subseteq SubIdsIn(subs')
          /\ Cardinality(subs) <= Cardinality(subs')]_vars

\* An active row was canceled by subscription-deleted and is still there.
C9_Witness ==
    /\ cur.phase = "done"
    /\ cur.event.type = "customer.subscription.deleted"
    /\ cur.changed
    /\ \E r \in RowsOf(subs, cur.event.object.id) :
         r.status = "canceled" /\ r.canceled_at = Some(now)

\* C10: subscription-deleted for a subscription id that has no row is logged
\* as a consistency gap (an error message), creates no row, changes no row, and
\* no exception leaves the handler.
C10_DeletedUnknownLogsGap ==
    [][(/\ Handled
        /\ cur.event.type = "customer.subscription.deleted"
        /\ RowsOf(subs, cur.event.object.id) = {}
        /\ cur'.calls = AllOk)
       => (/\ subs' = subs
           /\ ~cur'.escaped
           /\ LoggedError(cur'.log))]_vars

\* C11: a subscription-created or subscription-updated event whose customer
\* has no row in stripe_customers is dropped: the handler logs an error,
\* leaves stripe_subscriptions and stripe_customers as they are, ends without
\* an exception, and the delivery stays acknowledged with 200, so that the
\* provider has nothing to retry.
C11_UnmappedCustomerDropped ==
    [][(/\ Handled
        /\ cur.event.type \in Upserts
        /\ ~\E m \in customers : m.customer_id = cur.event.object.customer)
       => (/\ subs' = subs
           /\ customers' = customers
           /\ LoggedError(cur'.log)
           /\ cur'.log[Len(cur'.log)] = "Failed to find customer record for subscription"
           /\ ~cur'.escaped
           /\ cur'.status = 200)]_vars

\* A subscription-updated event of the unmapped customer was handled with
\* successful store calls, beside a stored row of the mapped customer.
C11_Witness ==
    /\ cur.phase = "done"
    /\ cur.event.type = "customer.subscription.updated"
    /\ cur.event.object.customer = "cus_2"
    /\ cur.calls = AllOk
    /\ subs # {}
    /\ \A r \in subs : r.subscription_id # cur.event.object.id
    /\ cur.log[Len(cur.log)] = "Failed to find customer record for subscription"

\* C13: stripe_orders changes only when a checkout.session.completed event
\* with mode payment and payment_status paid is handled, and then only by
\* rows with the checkout session id of that event; so an event in payment
\* mode whose payment_status is not paid leaves stripe_orders as it is, and no
\* row ever carries the id of a session that was not paid.
C13_OrderOnlyForPaidPayment ==
    /\ [][orders' # orders
          => /\ Handled
             /\ cur.event.type = "checkout.session.completed"
             /\ cur.event.object.mode = "payment"
             /\ cur.event.object.payment_status = "paid"
             /\ orders \subseteq orders'
             /\ \A o \in orders' \ orders :
                  o.checkout_session_id = cur.event.object.id]_vars
    /\ [][(/\ Handled
           /\ cur.event.type = "checkout.session.completed"
           /\ cur.event.object.mode = "payment"
           /\ cur.event.object.payment_status # "paid")
          => orders' = orders]_vars
    /\ [](\A o \in orders : o.checkout_session_id # "cs_2")

\* The unpaid payment session of the mapped customer was handled with
\* successful store calls and left no row; the order of the paid session,
\* handled earlier, is there.
C13_Witness ==
    /\ cur.phase = "done"
    /\ cur.event.type = "checkout.session.completed"
    /\ cur.event.object.mode = "payment"
    /\ cur.event.object.payment_status = "unpaid"
    /\ cur.event.object.customer = "cus_1"
    /\ cur.calls = AllOk
    /\ ~cur.changed
    /\ \E o \in orders : o.checkout_session_id = "cs_1"

\* The rows of stripe_orders of a checkout session.
OrdersOf(table, sessionId) == {o \in table : o.checkout_session_id = sessionId}

\* C14: with the paid payment-mode checkout.session.completed event of one
\* session delivered twice, one delivery after the other or both at once with
\* their store calls interleaved in any order, there is never more than one
\* row of stripe_orders with the id of that session; the row, once inserted,
\* is never changed or removed; and a delivery whose insert meets the row of
\* the other ends with the error logged and without a row of its own.
C14_OrderOncePerSession ==
    /\ [](Cardinality(OrdersOf(orders, "cs_1")) <= 1)
    /\ [][orders # {} => orders' = orders]_vars
    /\ [][\A t \in {1, 2} :
            (/\ tasks[t].pc = "write"
             /\ tasks'[t].pc = "done"
             /\ tasks[t].event.type = "checkout.session.completed"
             /\ tasks[t].lookup = "ok")
            => IF orders # {}
               THEN tasks'[t].log[Len(tasks'[t].log)] = "Error creating order record"
               ELSE \/ Cardinality(OrdersOf(orders', "cs_1")) = 1
                    \/ /\ orders' = {}
                       /\ tasks'[t].log[Len(tasks'[t].log)]
                            = "Error creating order record"]_vars

\* Both deliveries of the paid session looked the customer up before either
\* wrote; the first insert created the row, the second met it.
C14_Witness ==
    /\ tasks[1].pc = "done" /\ tasks[2].pc = "done"
    /\ tasks[1].event.type = "checkout.session.completed"
    /\ tasks[2].event.type = "checkout.session.completed"
    /\ tasks[1].log[Len(tasks[1].log)] = "Error creating order record"
    /\ tasks[2].log[Len(tasks[2].log)] = "Created order record"
    /\ Cardinality(OrdersOf(orders, "cs_1")) = 1


\* The mappings of a user that are not soft-deleted.
MappingsOf(u) == {m \in customers : m.user_id = u /\ m.deleted_at = Null}

\* Both slots hold a first checkout of the same user: each looked the mapping
\* up, found none and created a remote customer.
FirstCheckoutRace ==
    /\ reqs[1].user # NullStr
    /\ reqs[1].user = reqs[2].user
    /\ reqs[1].created # NullStr
    /\ reqs[2].created # NullStr

\* C15: when two first checkouts of one user have run at the same time and
\* both have ended, one of them with a session, the user has exactly one
\* mapping that is not soft-deleted.
C15_RacingFirstCheckoutsOneMapping ==
    (/\ FirstCheckoutRace
     /\ reqs[1].pc = "done" /\ reqs[2].pc = "done"
     /\ 200 \in {reqs[1].status, reqs[2].status})
        => Cardinality(MappingsOf(reqs[1].user)) = 1


\* C16: in a race of two first checkouts of one user two remote customers
\* can be created, and one mapping insert wins: a mapping is inserted for a
\* user only while the user has no mapping that is not soft-deleted, so that
\* the request that loses is left with a remote customer without mapping.
C16_OneInsertWins ==
    [][\A r \in Slots :
          (reqs[r].pc = "insert" /\ reqs'[r].inserted)
              => MappingsOf(reqs[r].user) = {}]_vars


\* C17: in every state of the store a user has at most one mapping that is
\* not soft-deleted, and no two such mappings have the same remote customer.
C17_MappingsUnique ==
    /\ \A u \in UserIds : Cardinality(MappingsOf(u)) <= 1
    /\ \A m, n \in customers :
          (m.deleted_at = Null /\ n.deleted_at = Null /\ m.customer_id = n.customer_id)
              => m = n


\* The log holds the message.
Logged(log, tag) == \E i \in 1..Len(log) : log[i] = tag

\* The session a slot's request creates.
SessionOf(r) == {s \in sessions : s.id = (IF r = 1 THEN "cs_1" ELSE "cs_2")}

\* C18: when the insert of the mapping fails after the remote customer was
\* created, the request goes on to delete that customer and to nothing else;
\* the delete is attempted, the answer is 500 and no session is created,
\* whether the delete succeeds (the customer is gone at the provider) or
\* fails (the failure is logged and nothing else happens).
C18_FailedInsertCompensated ==
    /\ [][\A r \in Slots :
            (reqs[r].pc = "insert" /\ reqs'[r] # reqs[r] /\ ~reqs'[r].inserted)
                => /\ reqs'[r].pc = "cleanup"
                   /\ reqs'[r].created = reqs[r].created
                   /\ reqs[r].created # NullStr
                   /\ customers' = customers
                   /\ sessions' = sessions]_vars
    /\ [][\A r \in Slots :
            (reqs[r].pc = "cleanup" /\ reqs'[r] # reqs[r])
                => /\ reqs'[r].pc = "done"
                   /\ reqs'[r].delTried
                   /\ reqs'[r].status = 500
                   /\ reqs'[r].session = NullStr
                   /\ sessions' = sessions
                   /\ customers' = customers
                   /\ \/ /\ provCustomers' = DelCustomer(provCustomers, reqs[r].created)
                         /\ reqs'[r].log = reqs[r].log
                      \/ /\ provCustomers' = provCustomers
                         /\ reqs'[r].log =
                              Say(reqs[r].log, "Failed to clean up Stripe customer")]_vars
    /\ [](\A r \in Slots :
            (reqs[r].pc = "done" /\ Logged(reqs[r].log, "Failed to save customer information"))
                => /\ reqs[r].delTried
                   /\ reqs[r].status = 500
                   /\ SessionOf(r) = {})

\* A request whose insert failed and whose delete failed too has answered 500,
\* and its customer is still at the provider.
C18_Witness ==
    \E r \in Slots :
        /\ reqs[r].pc = "done"
        /\ reqs[r].status = 500
        /\ reqs[r].delTried
        /\ Logged(reqs[r].log, "Failed to save customer information")
        /\ Logged(reqs[r].log, "Failed to clean up Stripe customer")
        /\ [id |-> reqs[r].created, deleted |-> FALSE] \in provCustomers


\* C19: a request creates at most one remote customer and at most one mapping
\* (one step of it adds at most one of either, and it has one create and one
\* insert step); a request whose lookup finds a mapping of the caller creates
\* neither, and when it ends with a session, the session is for the customer
\* of that mapping, which the answer returns as well.
C19_AtMostOneCustomerPerRequest ==
    /\ [][\A r \in Slots :
            reqs'[r] # reqs[r]
                => /\ Cardinality({c.id : c \in provCustomers'} \ {c.id : c \in provCustomers})
                        <= (IF reqs[r].pc = "create" THEN 1 ELSE 0)
                   /\ Cardinality(customers' \ customers) <=
                        (IF reqs[r].pc = "insert" THEN 1 ELSE 0)
                   /\ reqs[r].pc \in {"create", "insert"} => reqs'[r].pc # reqs[r].pc
                   /\ reqs'[r].pc \in {"create", "insert"}
                        => reqs[r].pc \in {"lookup", "create"}]_vars
    /\ [][\A r \in Slots :
            (reqs[r].pc = "lookup" /\ reqs'[r] # reqs[r] /\ MappingsOf(reqs[r].user) # {}
               /\ reqs'[r].status # 500)
                => /\ reqs'[r].customer \in {m.customer_id : m \in MappingsOf(reqs[r].user)}
                   /\ reqs'[r].pc \notin {"create", "insert"}]_vars
    /\ [](\A r \in Slots :
            (reqs[r].pc # "idle" /\ reqs[r].customer # NullStr /\ reqs[r].created = NullStr)
                => /\ ~reqs[r].inserted
                   /\ reqs[r].status = 200
                        => /\ reqs[r].respCustomer = reqs[r].customer
                           /\ \E s \in SessionOf(r) : s.customer = reqs[r].customer)

\* A request of a caller with a mapping has ended with a session for the
\* customer of the mapping, and nothing was created.
C19_Witness ==
    /\ reqs[1].pc = "done"
    /\ reqs[1].status = 200
    /\ reqs[1].created = NullStr
    /\ reqs[1].respCustomer = "cus_1"
    /\ Mapping1 \in customers
    /\ provCustomers = {ProvCustomer1}
    /\ \E s \in sessions : s.id = "cs_1" /\ s.customer = "cus_1"


\* The configuration a checkout needs is there.
CheckoutConfigured == env.stripeSecret /\ env.supabaseUrl /\ env.supabaseServiceKey

\* A POST that lacks one of price_id, success_url and cancel_url.
LacksParameter(inp) ==
    /\ inp.method = "POST"
    /\ (inp.price_id = NullStr \/ inp.success_url = NullStr \/ inp.cancel_url = NullStr)

\* What holds of a request that is turned away with 400 as it arrives: it is
\* over, the identity provider was not asked, and nothing was created.
TurnedAway(r) ==
    /\ reqs'[r].pc = "done"
    /\ reqs'[r].status = 400
    /\ ~reqs'[r].authCalled
    /\ UNCHANGED <<customers, provCustomers, sessions, subs, orders>>

\* C20 as stated: with the configuration in place, a POST that lacks a
\* parameter, or whose mode is missing or none of subscription and payment,
\* is answered with 400 and creates nothing.
C20_AsStated ==
    [][\A r \in Slots :
          (/\ reqs[r].pc = "idle" /\ reqs'[r] # reqs[r]
           /\ CheckoutConfigured
           /\ \/ LacksParameter(reqs'[r].input)
              \/ /\ reqs'[r].input.method = "POST"
                 /\ reqs'[r].input.mode \notin {"subscription", "payment"})
              => TurnedAway(r)]_vars

\* C20, amended: with the configuration in place, a POST that lacks price_id,
\* success_url or cancel_url, or whose mode is given and none of subscription
\* and payment, or, in stripe-checkout/index.ts, whose mode is missing, is
\* answered with 400 and creates nothing, then and later; in the function
\* embedded in SuccessPage.tsx a request without mode that has its other
\* parameters is not turned away and goes on as a subscription checkout.
C20_InvalidRequestRejected ==
    /\ [][\A r \in Slots :
            (/\ reqs[r].pc = "idle" /\ reqs'[r] # reqs[r]
             /\ CheckoutConfigured
             /\ \/ LacksParameter(reqs'[r].input)
                \/ /\ reqs'[r].input.method = "POST"
                   /\ reqs'[r].input.mode \notin {"subscription", "payment", "absent"}
                \/ /\ reqs'[r].input.method = "POST"
                   /\ reqs'[r].input.mode = "absent"
                   /\ variant = "cus")
                => TurnedAway(r)]_vars
    /\ [][\A r \in Slots :
            (/\ reqs[r].pc = "idle" /\ reqs'[r] # reqs[r]
             /\ CheckoutConfigured
             /\ ~LacksParameter(reqs'[r].input)
             /\ reqs'[r].input.method = "POST"
             /\ reqs'[r].input.mode = "absent"
             /\ reqs'[r].input.auth \in UserIds
             /\ variant = "sub")
                => reqs'[r].pc = "lookup" /\ reqs'[r].mode = "subscription"]_vars
    /\ [][\A r \in Slots : reqs[r].pc = "done" => reqs'[r] = reqs[r]]_vars
    /\ [](\A r \in Slots :
            reqs[r].status = 400
                => /\ reqs[r].created = NullStr
                   /\ ~reqs[r].inserted
                   /\ SessionOf(r) = {})

\* stripe-checkout/index.ts has turned away a request without mode, and the
\* store, the provider and the sessions are as they were.
C20_Witness ==
    /\ variant = "cus"
    /\ reqs[1].pc = "done"
    /\ reqs[1].status = 400
    /\ reqs[1].input.mode = "absent"
    /\ ~LacksParameter(reqs[1].input)
    /\ reqs[2].pc = "idle"
    /\ customers = {}
    /\ provCustomers = {}
    /\ sessions = {}


\* C12: the status of every row of stripe_subscriptions is of the enum.  A
\* subscription event whose status the enum does not have changes no row,
\* and the subscription-id keyed webhook logs the failure; the 'not_started'
\* row of stripe-checkout/index.ts is not stored either, the request logs the
\* failure and does not go on to a session.
C12_StatusAlwaysOfEnum ==
    /\ [](\A row \in subs : row.status \in SubscriptionStatus)
    /\ [][(/\ cur' # cur
           /\ cur'.event.type \in SubscriptionEventTypes
           /\ cur'.event.object.status \notin SubscriptionStatus)
            => /\ subs' = subs
               /\ variant = "sub" => LoggedError(cur'.log)]_vars
    /\ [][\A r \in Slots :
            (reqs[r].pc \in {"subinsert", "subensure"} /\ reqs'[r] # reqs[r])
                => /\ subs' = subs
                   /\ Len(reqs'[r].log) = Len(reqs[r].log) + 1
                   /\ reqs'[r].pc \in {"subdel", "done"}
                   /\ reqs'[r].pc = "done" => reqs'[r].status = 500]_vars

\* The webhook was sent an update to 'paused' for a subscription of a mapped
\* customer, both store calls went through, and no row was written.
C12_Witness ==
    /\ variant = "sub"
    /\ cur.phase = "done"
    /\ cur.event.object.status = "paused"
    /\ cur.calls = <<"ok", "ok">>
    /\ \E m \in customers : m.customer_id = cur.event.object.customer
    /\ LoggedError(cur.log)
    /\ subs = {}


\* A POST with its three parameters and a mode the function takes, sent to a
\* function that has its configuration.
WellFormedCheckout(inp) ==
    /\ CheckoutConfigured
    /\ inp.method = "POST"
    /\ ~LacksParameter(inp)
    /\ inp.mode \in {"subscription", "payment"}

\* C21: a well-formed checkout request without token, or with a token the
\* identity provider rejects, is answered 401, and one whose token resolves
\* to no user is answered 404; the request is over with that answer and no
\* remote customer, mapping, subscription row or session is created.
C21_UnauthenticatedRejected ==
    /\ [][\A r \in Slots :
            (/\ reqs[r].pc = "idle" /\ reqs'[r] # reqs[r]
             /\ WellFormedCheckout(reqs'[r].input)
             /\ reqs'[r].input.auth \notin UserIds)
                => /\ reqs'[r].pc = "done"
                   /\ reqs'[r].status =
                        (IF reqs'[r].input.auth = "nouser" THEN 404 ELSE 401)
                   /\ reqs'[r].authCalled = (reqs'[r].input.auth # "absent")
                   /\ UNCHANGED <<customers, provCustomers, sessions, subs, orders>>]_vars
    /\ [](\A r \in Slots :
            reqs[r].status \in {401, 404}
                => /\ reqs[r].pc = "done"
                   /\ reqs[r].created = NullStr
                   /\ ~reqs[r].inserted
                   /\ SessionOf(r) = {})

\* A request with a token that resolves to no user was answered 404 and the
\* store, the provider and the sessions are empty.
C21_Witness ==
    /\ reqs[1].pc = "done"
    /\ reqs[1].status = 404
    /\ reqs[1].input.auth = "nouser"
    /\ reqs[1].authCalled
    /\ reqs[2].pc = "idle"
    /\ customers = {}
    /\ provCustomers = {}
    /\ sessions = {}


\* C22: an answer of 200 carries a redirect URL; a session that the provider
\* returns without URL makes the request fail.
C22_SuccessCarriesUrl ==
    \A r \in Slots : reqs[r].status = 200 => reqs[r].url


C24_MappingNeverHardDeleted ==
    [][\A m \in customers : \E n \in customers' :
          n.id = m.id /\ n.user_id = m.user_id /\ n.customer_id = m.customer_id]_vars


\* The event types the webhooks have a handler for.
HandledTypes ==
    {"checkout.session.completed"} \cup SubscriptionEventTypes \cup InvoiceEventTypes

\* C25 as stated: a verified event of any other type is logged as unhandled
\* and changes no mapping, subscription or order row.
C25_AsStated ==
    [][(Handled /\ cur.event.type \notin HandledTypes)
          => /\ UNCHANGED <<customers, subs, orders>>
             /\ Logged(cur'.log, "Unhandled event type")]_vars

\* C25, amended: a verified event of any other type changes no mapping,
\* subscription or order row and nothing is thrown.  The subscription-id
\* keyed webhook logs it as unhandled.  The customer-id keyed webhook looks
\* at the customer of the event's object before the type: it logs the event as
\* unhandled when the object has a customer id, as skipped when the object has
\* no customer field, and as having an invalid customer id when the field is
\* empty.
C25_OtherTypesChangeNothing ==
    [][(Handled /\ cur.event.type \notin HandledTypes)
          => /\ UNCHANGED <<customers, subs, orders>>
             /\ ~cur'.escaped
             /\ cur'.log =
                  (IF variant = "sub" THEN <<"Handling event", "Unhandled event type">>
                   ELSE IF "customer" \notin DOMAIN cur.event.object
                   THEN <<"No customer data in event, skipping">>
                   ELSE IF cur.event.object.customer = NullStr
                   THEN <<"Invalid customer ID in event">>
                   ELSE <<"Processing event", "Unhandled event type">>)]_vars

\* The customer-id keyed webhook has handled an event of another type whose
\* object has a customer id, and has logged it as unhandled.
C25_Witness ==
    /\ variant = "cus"
    /\ cur.phase = "done"
    /\ cur.event.type = "charge.succeeded"
    /\ Logged(cur.log, "Unhandled event type")
    /\ subs = {} /\ orders = {}


\* C26: a checkout-session-completed event of a subscription checkout adds no
\* order row, and in the subscription-id keyed webhook it leaves the
\* subscription rows as they are, whatever the store calls do.
C26_SubscriptionCheckoutDeferred ==
    [][(/\ Handled
        /\ cur.event.type = "checkout.session.completed"
        /\ cur.event.object.mode = "subscription")
          => /\ orders' = orders
             /\ variant = "sub" => subs' = subs
             /\ ~cur'.escaped]_vars

\* The subscription-id keyed webhook has handled the completed subscription
\* checkout of the mapped customer, with both store calls going through, and
\* there is neither a subscription row nor an order.
C26_Witness ==
    /\ variant = "sub"
    /\ cur.phase = "done"
    /\ cur.event.type = "checkout.session.completed"
    /\ cur.event.object.mode = "subscription"
    /\ cur.event.object.customer = "cus_1"
    /\ cur.calls = AllOk
    /\ ~LoggedError(cur.log)
    /\ subs = {}
    /\ orders = {}


\* C27: the session a request has the provider create has one line item, of
\* quantity 1 and of the price the request names, the request's two URLs and
\* its mode, and a trial of seven days in subscription mode and none in
\* payment mode.
C27_SessionParameters ==
    \A r \in Slots : \A s \in SessionOf(r) :
        /\ Len(s.line_items) = 1
        /\ s.line_items[1] = [price |-> reqs[r].input.price_id, quantity |-> 1]
        /\ reqs[r].input.price_id # NullStr
        /\ s.success_url = reqs[r].input.success_url
        /\ s.cancel_url = reqs[r].input.cancel_url
        /\ s.mode = reqs[r].mode
        /\ s.mode \in {"subscription", "payment"}
        /\ reqs[r].input.mode \in {s.mode, "absent"}
        /\ s.trial_period_days = (IF s.mode = "subscription" THEN {7} ELSE {})

\* Both slots have a session: a subscription checkout with the trial and a
\* payment checkout of the other price without it.
C27_Witness ==
    /\ \E s \in SessionOf(1) :
          /\ s.mode = "subscription"
          /\ s.trial_period_days = {7}
          /\ s.line_items[1].price = "price_std"
    /\ \E s \in SessionOf(2) :
          /\ s.mode = "payment"
          /\ s.trial_period_days = {}
          /\ s.line_items[1].price = "price_pro"


\* A step in which a webhook request arrives and is answered.
Received == cur.phase = "idle" /\ cur'.phase # "idle"

\* C28: the webhook endpoint answers 405 to a method that is neither POST nor
\* OPTIONS, whatever the configuration and the signature; 500 to a POST when
\* one of the four configuration values is missing, whatever the signature;
\* 400 to a POST with the configuration in place and no signature header.
\* None of these answers starts handleEvent, and no row changes.
C28_EndpointChecksInOrder ==
    /\ [][(Received /\ cur'.method \notin {"POST", "OPTIONS"})
            => cur'.status = 405]_vars
    /\ [][(Received /\ cur'.method = "POST" /\ env # AllSet)
            => cur'.status = 500]_vars
    /\ [][(Received /\ cur'.method = "POST" /\ env = AllSet /\ cur'.signature = "absent")
            => cur'.status = 400]_vars
    /\ [][(Received /\ cur'.status \in {405, 500, 400})
            => /\ ~cur'.dispatched
               /\ cur'.phase = "done"
               /\ UNCHANGED <<customers, subs, orders>>]_vars
    /\ [](cur.status \in {405, 500, 400} => (cur.phase = "done" /\ cur.log = <<>>))

\* A POST without signature header has reached an endpoint whose signing
\* secret is missing and was answered 500.
C28_Witness ==
    /\ cur.phase = "done"
    /\ cur.method = "POST"
    /\ cur.signature = "absent"
    /\ ~env.stripeWebhookSecret
    /\ cur.status = 500
    /\ ~cur.dispatched


\* The subscription-id keyed webhook with fair scheduling of handleEvent: a
\* run that was started is not left waiting for ever, its store calls return
\* with a result or an error.  The requests carry one event of each type.
NextSubFair ==
    \/ \E req \in RequestsOf(RaceEvents \cup {AnEvent}) : Receive(req)
    \/ \E plan \in CallPlans(cur.event) : HandleSub(plan)
    \/ Redeliver
    \/ Finish

SpecSubFair ==
    /\ InitSub
    /\ [][NextSubFair]_vars
    /\ WF_vars(\E plan \in CallPlans(cur.event) : HandleSub(plan))

\* C29: a request is dispatched to handleEvent exactly when it is a POST to a
\* configured endpoint with a signature that verifies; the answer, 200, is
\* given in the step the request arrives in, before handleEvent has run, and
\* the run that follows does not change it.  Each delivery has one run: a run
\* starts from a dispatched delivery only, and a further run needs a further
\* delivery.  Every run that was started ends, with or without error.
C29_DispatchedOnceAndFinishes ==
    /\ [][Received
            => /\ cur'.dispatched =
                    (cur'.method = "POST" /\ env = AllSet /\ cur'.signature = "valid")
               /\ cur'.dispatched => (cur'.status = 200 /\ cur'.phase = "acked")
               /\ ~cur'.dispatched => cur'.phase = "done"
               /\ cur'.log = <<>>
               /\ UNCHANGED <<customers, subs, orders>>]_vars
    /\ [][Handled
            => /\ cur.dispatched
               /\ cur'.attempt = cur.attempt
               /\ cur'.status = 200
               /\ cur'.event = cur.event]_vars
    /\ [][(cur.phase # "idle" /\ cur'.phase = "acked")
            => (cur.phase = "done" /\ cur'.attempt = cur.attempt + 1)]_vars
    /\ [][(cur.phase = "acked" /\ cur' # cur) => Handled]_vars
    /\ (cur.phase = "acked") ~> (cur.phase = "done")

\* The second delivery of an event was answered 200 and its run has ended
\* with an error of the store.
C29_Witness ==
    /\ cur.phase = "done"
    /\ cur.dispatched
    /\ cur.attempt = 2
    /\ cur.status = 200
    /\ cur.calls = <<"ok", "error">>
    /\ LoggedError(cur.log)


\* C30: in the subscription-id keyed webhook a subscription id has at most one
\* row, and exactly one once an upsert for it went through; in the
\* customer-id keyed webhook a customer has at most one row, and a sync that
\* went through leaves in it what the provider holds for the customer.
C30_OneRowPerUpsertKey ==
    /\ [](variant = "sub" => \A sid \in SubIds : Cardinality(RowsBySub(subs, sid)) <= 1)
    /\ [][(/\ Handled
           /\ variant = "sub"
           /\ cur.event.type \in Upserts
           /\ ~LoggedError(cur'.log))
            => Cardinality(RowsBySub(subs', cur.event.object.id)) = 1]_vars
    /\ [][variant = "sub" => SubIdsIn(subs) \subseteq SubIdsIn(subs')]_vars
    /\ [](variant = "cus"
            => \A c \in CustomerIds : Cardinality({r \in subs : r.customer_id = c}) <= 1)
    /\ [][(/\ Handled
           /\ variant = "cus"
           /\ cur.event.type \in SubscriptionEventTypes \cup InvoiceEventTypes
           /\ cur'.calls = AllOk
           /\ cur'.fetched # {})
            => \E r \in subs' : \E f \in cur'.fetched :
                  /\ r.customer_id = cur.event.object.customer
                  /\ r.subscription_id = f.id
                  /\ r.status = f.status]_vars

\* C31: an order row, once created, is never changed or removed by a later
\* step of either webhook, whatever the event and the outcome of its calls,
\* and every order row a step creates has status paid.
C31_OrdersImmutableAndPaid ==
    [][/\ orders \subseteq orders'
       /\ \A o \in orders' \ orders : o.status = "paid"]_vars

\* An order exists while an event of another type has been handled to its end.
C31_Witness ==
    /\ orders # {}
    /\ cur.phase = "done"
    /\ cur.dispatched
    /\ cur.event.type = "customer.subscription.deleted"
    /\ cur.calls = AllOk

\* C32: no step of either webhook, answering a request or handling its event,
\* changes the customer mappings, whatever the event's type and payload and
\* the outcome of the calls, also when the event names a remote customer
\* that has no mapping.
C32_WebhookLeavesMappingsAlone ==
    [][(Received \/ Handled) => customers' = customers]_vars

\* An event of a remote customer without mapping was handled, all calls
\* returning, and the customer still has no mapping.
C32_Witness ==
    /\ cur.phase = "done"
    /\ cur.dispatched
    /\ cur.calls = AllOk
    /\ cur.event.type = "customer.subscription.created"
    /\ cur.event.object.customer = "cus_2"
    /\ customers = {Mapping1}

\* A POST whose body does not pass the checks of the parameters and the mode.
FailsValidation(inp) ==
    \/ LacksParameter(inp)
    \/ inp.mode \notin {"subscription", "payment", "absent"}
    \/ (inp.mode = "absent" /\ variant = "cus")

\* C33: the answer to a checkout request is that of the first check it
\* fails, in the order method, configuration, body, Authorization header,
\* token: a configured POST whose body fails is answered 400 whatever its
\* token, and the identity provider is asked only for requests that passed
\* the checks of method, configuration, body and header.
C33_CheckoutChecksInOrder ==
    /\ [][\A r \in Slots :
            (reqs[r].pc = "idle" /\ reqs'[r] # reqs[r])
                => LET q == reqs'[r]
                       inp == reqs'[r].input
                   IN  IF inp.method = "OPTIONS" THEN q.status = 204 /\ ~q.authCalled
                       ELSE IF inp.method # "POST" THEN q.status = 405 /\ ~q.authCalled
                       ELSE IF ~CheckoutConfigured THEN q.status = 500 /\ ~q.authCalled
                       ELSE IF FailsValidation(inp) THEN q.status = 400 /\ ~q.authCalled
                       ELSE IF inp.auth = "absent" THEN q.status = 401 /\ ~q.authCalled
                       ELSE IF inp.auth = "invalid" THEN q.status = 401 /\ q.authCalled
                       ELSE IF inp.auth = "nouser" THEN q.status = 404 /\ q.authCalled
                       ELSE q.pc = "lookup" /\ q.authCalled]_vars
    /\ [](\A r \in Slots : reqs[r].status \in {204, 405, 400} => ~reqs[r].authCalled)

\* A POST without price_id and with a token the identity provider would
\* reject was answered 400, and the identity provider was not asked.
C33_Witness ==
    /\ CheckoutConfigured
    /\ reqs[1].pc = "done"
    /\ reqs[1].status = 400
    /\ reqs[1].input.price_id = NullStr
    /\ reqs[1].input.auth = "invalid"
    /\ ~reqs[1].authCalled

\* The mappings of a user that are not soft-deleted.
ActiveMappingsOf(u) == {m \in customers : m.user_id = u /\ m.deleted_at = Null}

\* The request of slot r found the store holding a mapping of its caller: it
\* is under way, has created no customer, and its caller has a mapping.
FindsMapping(r) ==
    /\ reqs[r].pc \notin {"idle", "done"}
    /\ reqs[r].created = NullStr
    /\ ActiveMappingsOf(reqs[r].user) # {}

C35_StoredRowEqualsProviderState ==
    (/\ variant = "cus"
     /\ cur.phase = "done"
     /\ cur.dispatched
     /\ cur.event.type \in SubscriptionEventTypes \cup InvoiceEventTypes
     /\ "customer" \in DOMAIN cur.event.object
     /\ cur.event.object.customer \in CustomerIds
     /\ cur.calls = AllOk
     /\ cur.fetched = remote[CustomerOf(cur.event)])
        => LET c == cur.event.object.customer
           IN  \E r \in subs :
                  /\ r.customer_id = c
                  /\ IF remote[c] = {}
                     THEN r.status = "canceled"
                     ELSE \E f \in remote[c] : SyncPatch(r, c, f, now) = r

\* C36: in the customer-id keyed webhook an event whose object has no
\* customer field, or whose customer is null, empty or no string, is handled
\* without reaching the dispatch: no sync and no provider call is started,
\* no table changes and nothing is thrown, whatever the type of the event and
\* whatever the store and the provider would have answered.
C36_EventWithoutCustomerSkipped ==
    [][(/\ Handled
        /\ variant = "cus"
        /\ \/ "customer" \notin DOMAIN cur.event.object
           \/ ~IsCustomerIdString(cur.event.object.customer))
          => /\ subs' = subs
             /\ orders' = orders
             /\ customers' = customers
             /\ cur'.log \in {<<"No customer data in event, skipping">>,
                              <<"Invalid customer ID in event">>}
             /\ ~cur'.escaped]_vars

\* An invoice-payment-failed event whose customer is the expanded object was
\* handled, with the provider holding a subscription of cus_1: the sync was
\* not started.
C36_Witness ==
    /\ variant = "cus"
    /\ cur.phase = "done"
    /\ cur.dispatched
    /\ cur.event.type = "invoice.payment_failed"
    /\ "customer" \in DOMAIN cur.event.object
    /\ cur.event.object.customer = "object"
    /\ remote["cus_1"] # {}
    /\ cur.log = <<"Invalid customer ID in event">>

\* C37: in the customer-id keyed webhook, a sync that finds the provider
\* listing no subscription for the event's customer, its calls returning,
\* leaves the customer with a row of status canceled: a new row when there
\* was none, else the old row with status and updated_at written over and
\* every other column as it was; rows of other customers are as they were.
C37_NoSubscriptionUpsertsCanceled ==
    [][(/\ Handled
        /\ variant = "cus"
        /\ cur.event.type \in SubscriptionEventTypes \cup InvoiceEventTypes
        /\ "customer" \in DOMAIN cur.event.object
        /\ cur.event.object.customer \in CustomerIds
        /\ cur'.fetched = {}
        /\ cur'.calls = AllOk)
          => LET c == cur.event.object.customer
                 old == {r \in subs : r.customer_id = c}
             IN  /\ \E r \in subs' : r.customer_id = c /\ r.status = "canceled"
                 /\ \A r \in old :
                        [r EXCEPT !.status = "canceled", !.updated_at = Some(now)] \in subs'
                 /\ {r \in subs' : r.customer_id # c} = {r \in subs : r.customer_id # c}]_vars

\* The first-time subscription request of slot r was answered 500 'Failed to
\* create subscription record'.
SubscriptionRecordFailed(r) ==
    /\ reqs[r].pc = "done"
    /\ reqs[r].status = 500
    /\ reqs[r].created # NullStr
    /\ Logged(reqs[r].log, "Failed to create subscription record")

\* The mapping row of the customer the request of slot r created is there.
MappingRemains(r) == \E m \in customers : m.customer_id = reqs[r].created

\* The customer the request of slot r created is there and not deleted.
RemoteCustomerRemains(r) == [id |-> reqs[r].created, deleted |-> FALSE] \in provCustomers

\* C38 as stated: after the answer 500 'Failed to create subscription record'
\* to a first-time subscription request, neither the mapping it inserted nor
\* the remote customer it created remains, whatever the clean-up calls did.
C38_AsStated ==
    \A r \in Slots :
        SubscriptionRecordFailed(r) => ~MappingRemains(r) /\ ~RemoteCustomerRemains(r)

\* C38, amended: after that answer, when stripe.customers.del went through
\* the remote customer is deleted, and the mapping is gone unless its delete
\* failed; when stripe.customers.del was rejected the failure is logged, the
\* delete of the mapping is not tried, and both the remote customer and the
\* mapping remain.  The delete of the mapping removes no other row.
C38_CleanupBestEffort ==
    /\ [](\A r \in Slots :
            SubscriptionRecordFailed(r)
                => /\ reqs[r].delTried
                   /\ IF Logged(reqs[r].log,
                                "Failed to clean up after subscription creation error")
                      THEN MappingRemains(r) /\ RemoteCustomerRemains(r)
                      ELSE ~RemoteCustomerRemains(r))
    /\ [][\A r \in Slots :
            (reqs[r].pc = "subdelete" /\ reqs'[r] # reqs[r])
                => /\ reqs'[r].pc = "done"
                   /\ customers' \subseteq customers
                   /\ \A m \in customers \ customers' : m.customer_id = reqs[r].created
                   /\ \/ customers' = customers
                      \/ ~\E m \in customers' : m.customer_id = reqs[r].created]_vars

\* A first-time subscription request was answered 500 after both clean-up
\* calls went through: its customer is deleted and its mapping is gone.
C38_Witness ==
    /\ SubscriptionRecordFailed(2)
    /\ ~Logged(reqs[2].log, "Failed to clean up after subscription creation error")
    /\ ~MappingRemains(2)
    /\ ~RemoteCustomerRemains(2)
    /\ [id |-> reqs[2].created, deleted |-> TRUE] \in provCustomers

\* C39: in the subscription-id keyed webhook an invoice event creates no row,
\* and one whose subscription is no string id, or an id without row, leaves
\* stripe_subscriptions as it is and throws nothing; an
\* invoice-payment-failed that comes before the subscription-created event of
\* its subscription therefore leaves nothing behind.
C39_InvoiceEventsCreateNoRow ==
    /\ [][(/\ Handled
           /\ variant = "sub"
           /\ cur.event.type \in InvoiceEventTypes)
             => /\ SubIdsIn(subs') = SubIdsIn(subs)
                /\ Cardinality(subs') = Cardinality(subs)
                /\ orders' = orders
                /\ ~cur'.escaped]_vars
    /\ [][(/\ Handled
           /\ variant = "sub"
           /\ cur.event.type \in InvoiceEventTypes
           /\ \/ ~IsSubscriptionIdString(cur.event.object)
              \/ RowsBySub(subs, cur.event.object.subscription) = {})
             => /\ subs' = subs
                /\ ~cur'.changed]_vars

\* An invoice-payment-failed for sub_1 was handled, the store call going
\* through, before any event created the row of sub_1: the table is empty.
C39_Witness ==
    /\ variant = "sub"
    /\ cur.phase = "done"
    /\ cur.dispatched
    /\ cur.event.type = "invoice.payment_failed"
    /\ cur.event.object.subscription = "sub_1"
    /\ cur.calls = AllOk
    /\ subs = {}

\* C40: in the subscription-id keyed webhook, the completed paid payment
\* checkout of a remote customer without mapping creates no order, whatever
\* the store answers, and every order a step creates carries as customer_id
\* the id of the mapping whose customer_id is the customer of the session
\* handled.
C40_OrderReferencesMapping ==
    /\ [][(/\ Handled
           /\ variant = "sub"
           /\ cur.event.type = "checkout.session.completed"
           /\ cur.event.object.mode = "payment"
           /\ cur.event.object.payment_status = "paid"
           /\ ~\E m \in customers : m.customer_id = cur.event.object.customer)
             => /\ orders' = orders
                /\ ~cur'.escaped]_vars
    /\ [][variant = "sub"
            => \A o \in orders' \ orders :
                  \E m \in customers :
                     /\ m.customer_id = cur.event.object.customer
                     /\ o.customer_id = m.id
                     /\ o.checkout_session_id = cur.event.object.id]_vars

\* The paid payment session of cus_2, which has no mapping, was handled with
\* both store calls returning, and there is no order.
C40_Witness ==
    /\ variant = "sub"
    /\ cur.phase = "done"
    /\ cur.dispatched
    /\ cur.event.type = "checkout.session.completed"
    /\ cur.event.object.mode = "payment"
    /\ cur.event.object.payment_status = "paid"
    /\ cur.event.object.customer = "cus_2"
    /\ cur.calls = AllOk
    /\ orders = {}
    /\ Logged(cur.log, "Failed to find customer record")

====
